---- MODULE Spec2Model ----
(***************************************************************************)
(* Invoice reconciliation dashboard (src/sis_enhanced_invoice_app.py):     *)
(* the Gold Record Writer of show_reconciliation, run by two reviewer      *)
(* sessions against one shared store.  Every conn.query(...) of the submit *)
(* path is one atomic store statement that either executes or raises; the  *)
(* store has no transaction around them.                                   *)
(***************************************************************************)
EXTENDS Integers, Sequences, FiniteSets, Bags, TLC

\* ------------------------------------------------------------------ bounds

\* The accept buttons are pressed at most MaxAccepts times in all.
MaxAccepts == 2

\* At most MaxFailures store calls raise.
MaxFailures == 1

\* Ticks per second: strftime('%Y-%m-%d %H:%M:%S') keeps whole seconds only.
TicksPerSecond == 2

\* ------------------------------------------------------------ fixed domains

Sessions == {"s1", "s2"}

Invoices == {"INV1", "INV2"}

\* The "" entry of invoice_list (falsy: no invoice selected).
NoInvoice == ""

\* SQL NULL in a text column, and in a timestamp column.
NULL == "NULL"

NullTime == 0 - 1

\* The account each session is logged in with (what CURRENT_USER() returns).
Account(s) == IF s = "s1" THEN "ALICE" ELSE "BOB"

\* The text each reviewer keeps in the "Manual Review Notes" text area.
NotesOf(s) == IF s = "s1" THEN <<"o", "'", "k">> ELSE <<"n">>

\* ------------------------------------------------------------- bronze data
\* INV1 has rows in all four bronze tables.  INV2 has no document-AI items
\* and no transactional totals.  Text is a sequence of characters.

TransactItemsData ==
    << [invoice_id |-> "INV1", product_name |-> <<"A">>, quantity |-> 2,
        unit_price |-> 5, total_price |-> 10],
       [invoice_id |-> "INV2", product_name |-> <<"B">>, quantity |-> 1,
        unit_price |-> 7, total_price |-> 7] >>

TransactTotalsData ==
    << [invoice_id |-> "INV1", invoice_date |-> 1, subtotal |-> 10,
        tax |-> 1, total |-> 11] >>

DocaiItemsData ==
    << [invoice_id |-> "INV1", product_name |-> <<"A">>, quantity |-> 2,
        unit_price |-> 5, total_price |-> 10],
       [invoice_id |-> "INV1", product_name |-> <<"O", "'", "B">>, quantity |-> 1,
        unit_price |-> 3, total_price |-> 3] >>

DocaiTotalsData ==
    << [invoice_id |-> "INV1", invoice_date |-> 1, subtotal |-> 13,
        tax |-> 1, total |-> 14],
       [invoice_id |-> "INV2", invoice_date |-> 2, subtotal |-> 7,
        tax |-> 0, total |-> 7] >>

\* A row of RECONCILE_RESULTS_ITEMS / RECONCILE_RESULTS_TOTALS as the external
\* comparator publishes it.
ReconcileRow(inv, status) ==
    [invoice_id |-> inv, review_status |-> status, reviewed_by |-> NULL,
     reviewed_timestamp |-> NullTime, notes |-> <<>>]

\* ------------------------------------------------------------------- state

VARIABLES
    bronze,               \* TRANSACT_* and DOCAI_* tables (sequences of rows)
    gold_items,           \* GOLD_INVOICE_ITEMS: a bag of rows
    gold_totals,          \* GOLD_INVOICE_TOTALS: a bag of rows
    reconcile_items,      \* RECONCILE_RESULTS_ITEMS: a set of rows
    reconcile_totals,     \* RECONCILE_RESULTS_TOTALS: a set of rows
    now,                  \* the wall clock
    CURRENT_USER,         \* per session: the module-level CURRENT_USER
    selected_invoice_id,  \* per session: value of the invoice selectbox
    session_state,        \* per session: the four dataframes kept in st.session_state
    pc,                   \* per session: position in the submit path
    gold_items_df,        \* per session: local gold_items_df
    gold_totals_df,       \* per session: local gold_totals_df
    current_ts,           \* per session: local current_ts
    todo,                 \* per session: rows the running insert loop has left
    button,               \* per session: the accept button this run handles
    outcome,              \* per session: what the last accept reported in the UI
    issued,               \* per session: store statements the last accept issued
    pre,                  \* per session: the invoice's store rows when accept was pressed
    alone,                \* per session: no other session wrote the invoice since
    accepts,              \* number of accept presses so far
    failures,             \* number of store calls that raised so far
    reconciliation_data,  \* what get_invoice_reconciliation_metrics last returned
    returned,             \* the last call of a read or adapter function, with its value
    st_cache,             \* st.cache_data: the entries of load_reconcile_data, per filter
    inputs,               \* what the call under check is given: query answers, texts, form fields
    stage,                \* the names of the files in DOC_AI_STAGE
    pdf_doc,              \* validation app: st.session_state['pdf_doc']
    pdf_url,              \* validation app: st.session_state['pdf_url']
    pdf_page,             \* validation app: st.session_state['pdf_page']
    upload_status,        \* upload app: st.session_state.upload_status
    upload_results,       \* upload app: st.session_state.upload_results
    stage_cache           \* upload app: the st.cache_data entry of get_stage_files

storeVars == <<gold_items, gold_totals, reconcile_items, reconcile_totals>>

sessVars == <<selected_invoice_id, session_state, pc, gold_items_df, gold_totals_df,
              current_ts, todo>>

histVars == <<button, outcome, issued, pre, alone>>

boundVars == <<accepts, failures>>

\* What the page holds of the store reads it made.
pageVars == <<reconciliation_data, returned>>

cacheVars == <<st_cache>>

\* The session state of the PDF viewer and of the upload page.
pdfVars == <<pdf_doc, pdf_url, pdf_page>>

uploadVars == <<stage, upload_status, upload_results, stage_cache>>

vars == <<bronze, storeVars, now, CURRENT_USER, sessVars, histVars, boundVars, pageVars,
          cacheVars, inputs, pdfVars, uploadVars>>

\* ----------------------------------------------------------------- helpers

\* st.session_state[key] = None, or a dataframe.
None == [isNone |-> TRUE, df |-> <<>>]

Some(df) == [isNone |-> FALSE, df |-> df]

RECURSIVE SeqToBag(_)
SeqToBag(sq) ==
    IF sq = <<>> THEN EmptyBag ELSE SetToBag({Head(sq)}) (+) SeqToBag(Tail(sq))

\* The rows of a table (a bag) that satisfy WHERE INVOICE_ID = inv.
WhereInvoice(table, inv) ==
    [r \in {x \in DOMAIN table : x.invoice_id = inv} |-> table[r]]

\* Variants of the DELETE: one that removes nothing (the commit appends),
\* one without its WHERE clause.
DeleteNothing(table, inv) == table

DeleteEveryInvoice(table, inv) == EmptyBag

\* The table after DELETE FROM table WHERE INVOICE_ID = inv.
DeleteWhere(table, inv) ==
    [r \in {x \in DOMAIN table : x.invoice_id # inv} |-> table[r]]

\* str(x).replace("'", "''")
RECURSIVE SqlEscape(_)
SqlEscape(text) ==
    IF text = <<>> THEN <<>>
    ELSE IF Head(text) = "'" THEN <<"'", "'">> \o SqlEscape(Tail(text))
    ELSE <<Head(text)>> \o SqlEscape(Tail(text))

\* The value the store reads from the body of a quoted literal: '' is one
\* quote, a single quote ends the literal.
RECURSIVE SqlLiteral(_)
SqlLiteral(body) ==
    IF body = <<>> THEN <<>>
    ELSE IF Head(body) = "'"
         THEN IF Len(body) >= 2 /\ body[2] = "'"
              THEN <<"'">> \o SqlLiteral(Tail(Tail(body)))
              ELSE <<>>
    ELSE <<Head(body)>> \o SqlLiteral(Tail(body))

\* current_ts.strftime('%Y-%m-%d %H:%M:%S') as the store reads it back.
Strftime(ts) == ts - (ts % TicksPerSecond)

\* The store rows of one invoice: what a read of that invoice returns.
View(inv) ==
    [invoice_id |-> inv,
     items  |-> WhereInvoice(gold_items, inv),
     totals |-> WhereInvoice(gold_totals, inv),
     ri     |-> {r \in reconcile_items : r.invoice_id = inv},
     rt     |-> {r \in reconcile_totals : r.invoice_id = inv}]

NoView ==
    [invoice_id |-> NoInvoice, items |-> EmptyBag, totals |-> EmptyBag,
     ri |-> {}, rt |-> {}]

\* ------------------------------------------------------------ start-up

\* try: CURRENT_USER = conn.query("SELECT CURRENT_USER() ...") except: "unknown_user"
\* The lookup of session s1 may have failed; that of s2 succeeded.
CurrentUserLookup(s) == IF s = "s1" THEN {Account(s), "unknown_user"} ELSE {Account(s)}

\* No store read has been made for the page yet.
NoData == [kind |-> "none"]

\* The values of the "Filter by Review Status" selectbox.
StatusFilters == {"Pending Review", "Reviewed", "Auto-reconciled"}

\* A function of st.cache_data without a cached entry for its arguments.
NoEntry == [present |-> FALSE, before_write |-> FALSE, value |-> {}]

\* No function has been called yet.
NoCall == [fn |-> "none"]

\* A script that has not run yet: the clock, the sessions and the page.
\* None in the session keys pdf_doc and upload_results, and no cache entry
\* of get_stage_files.
NoDoc == [isNone |-> TRUE, pages |-> 0]

NoResults == [isNone |-> TRUE, success |-> 0, failed |-> 0, total_stage |-> 0]

NoStageList == [present |-> FALSE, stage_count |-> 0]

InitReviewers ==
    /\ now = 0
    /\ CURRENT_USER \in {f \in [Sessions -> {Account(s) : s \in Sessions} \cup {"unknown_user"}] :
                            \A s \in Sessions : f[s] \in CurrentUserLookup(s)}
    /\ selected_invoice_id = [s \in Sessions |-> NoInvoice]
    /\ session_state = [s \in Sessions |->
                          [edited_transact_items |-> None, edited_transact_totals |-> None,
                           docai_items |-> None, docai_totals |-> None]]
    /\ pc = [s \in Sessions |-> "idle"]
    /\ gold_items_df = [s \in Sessions |-> <<>>]
    /\ gold_totals_df = [s \in Sessions |-> <<>>]
    /\ current_ts = [s \in Sessions |-> 0]
    /\ todo = [s \in Sessions |-> <<>>]
    /\ button = [s \in Sessions |-> "none"]
    /\ outcome = [s \in Sessions |-> "none"]
    /\ issued = [s \in Sessions |-> <<>>]
    /\ pre = [s \in Sessions |-> NoView]
    /\ alone = [s \in Sessions |-> FALSE]
    /\ accepts = 0
    /\ failures = 0
    /\ reconciliation_data = NoData
    /\ returned = NoCall
    /\ st_cache = [f \in StatusFilters |-> NoEntry]
    /\ pdf_doc = NoDoc
    /\ pdf_url = "None"
    /\ pdf_page = 0
    /\ upload_status = "ready"
    /\ upload_results = NoResults
    /\ stage_cache = NoStageList

\* No adapter of the AI insight pages is in use.
NoAnswer == [result |-> "none"]

InitSession == InitReviewers /\ inputs = NoAnswer /\ stage = {}

Init ==
    /\ bronze = [transact_items  |-> TransactItemsData,
                 transact_totals |-> TransactTotalsData,
                 docai_items     |-> DocaiItemsData,
                 docai_totals    |-> DocaiTotalsData]
    /\ gold_items = EmptyBag
    /\ gold_totals = EmptyBag
    /\ reconcile_items = {ReconcileRow("INV1", "Pending Review")}
    /\ reconcile_totals = {ReconcileRow("INV1", "Pending Review"),
                           ReconcileRow("INV2", "Pending Review")}
    /\ InitSession

\* ----------------------------------------------- rendering the review page

\* load_reconcile_data: the invoice ids listed in either reconcile table.
ListedInvoices ==
    {r.invoice_id : r \in reconcile_items} \cup {r.invoice_id : r \in reconcile_totals}

\* load_bronze_data(invoice_id) when its four reads succeed.
load_bronze_data(inv) ==
    [transact_items  |-> SelectSeq(bronze.transact_items, LAMBDA r : r.invoice_id = inv),
     transact_totals |-> SelectSeq(bronze.transact_totals, LAMBDA r : r.invoice_id = inv),
     docai_items     |-> SelectSeq(bronze.docai_items, LAMBDA r : r.invoice_id = inv),
     docai_totals    |-> SelectSeq(bronze.docai_totals, LAMBDA r : r.invoice_id = inv)]

\* df.head(1)
Head1(df) == IF df = <<>> THEN <<>> ELSE <<df[1]>>

\* "if not df.empty: st.session_state.key = df": an empty dataframe leaves the
\* key as it was.
StoreIfNotEmpty(old, df) == IF df # <<>> THEN Some(df) ELSE old

\* Section 2 of show_reconciliation: the four session_state keys after the
\* page is drawn for invoice inv with unedited editors.
RenderBronze(ss, inv) ==
    LET b == load_bronze_data(inv) IN
    [edited_transact_items  |-> StoreIfNotEmpty(ss.edited_transact_items, b.transact_items),
     edited_transact_totals |-> StoreIfNotEmpty(ss.edited_transact_totals, Head1(b.transact_totals)),
     docai_items            |-> StoreIfNotEmpty(ss.docai_items, b.docai_items),
     docai_totals           |-> StoreIfNotEmpty(ss.docai_totals, b.docai_totals)]

\* The reviewer picks an invoice in the selectbox and the page is redrawn
\* with the four dataframes load_bronze_data returns.
SelectInvoice(s) ==
    /\ pc[s] = "idle"
    /\ \E inv \in ListedInvoices :
          /\ selected_invoice_id' = [selected_invoice_id EXCEPT ![s] = inv]
          /\ session_state' = [session_state EXCEPT ![s] = RenderBronze(@, inv)]
    /\ UNCHANGED <<cacheVars, pageVars, pdfVars, uploadVars, inputs, bronze, storeVars, now, CURRENT_USER, pc, gold_items_df,
                   gold_totals_df, current_ts, todo, histVars, boundVars>>

\* The same, when a read of load_bronze_data raises: it reports the error
\* and returns {}, and "if bronze_data_dict:" skips the whole of section 2.
SelectInvoiceLoadFails(s) ==
    /\ pc[s] = "idle"
    /\ failures < MaxFailures
    /\ failures' = failures + 1
    /\ \E inv \in ListedInvoices :
          selected_invoice_id' = [selected_invoice_id EXCEPT ![s] = inv]
    /\ UNCHANGED <<cacheVars, pageVars, pdfVars, uploadVars, inputs, bronze, storeVars, now, CURRENT_USER, session_state, pc,
                   gold_items_df, gold_totals_df, current_ts, todo, histVars, accepts>>

\* What the reviewer does in the items editor (num_rows="dynamic"): delete
\* every row.
ItemEdits(df) == {SubSeq(df, 1, 0)}

\* What the reviewer can do in the totals editor (fixed rows): change the total.
TotalEdits(df) ==
    {[i \in DOMAIN df |-> [df[i] EXCEPT !.total = 14]]}

\* st.data_editor returns the edited transactional items of the selected invoice.
EditItems(s) ==
    /\ pc[s] = "idle"
    /\ selected_invoice_id[s] # NoInvoice
    /\ load_bronze_data(selected_invoice_id[s]).transact_items # <<>>
    /\ \E df \in ItemEdits(load_bronze_data(selected_invoice_id[s]).transact_items) :
          session_state' = [session_state EXCEPT ![s].edited_transact_items = Some(df)]
    /\ UNCHANGED <<cacheVars, pageVars, pdfVars, uploadVars, inputs, bronze, storeVars, now, CURRENT_USER, selected_invoice_id, pc,
                   gold_items_df, gold_totals_df, current_ts, todo, histVars, boundVars>>

\* st.data_editor returns the edited transactional totals of the selected invoice.
EditTotals(s) ==
    /\ pc[s] = "idle"
    /\ selected_invoice_id[s] # NoInvoice
    /\ load_bronze_data(selected_invoice_id[s]).transact_totals # <<>>
    /\ \E df \in TotalEdits(Head1(load_bronze_data(selected_invoice_id[s]).transact_totals)) :
          session_state' = [session_state EXCEPT ![s].edited_transact_totals = Some(df)]
    /\ UNCHANGED <<cacheVars, pageVars, pdfVars, uploadVars, inputs, bronze, storeVars, now, CURRENT_USER, selected_invoice_id, pc,
                   gold_items_df, gold_totals_df, current_ts, todo, histVars, boundVars>>

\* ------------------------------------------------- section 3: the accept

\* df[["INVOICE_ID", "PRODUCT_NAME", "QUANTITY", "UNIT_PRICE", "TOTAL_PRICE"]].copy()
ProjectItems(df) ==
    [i \in DOMAIN df |->
        [invoice_id |-> df[i].invoice_id, product_name |-> df[i].product_name,
         quantity |-> df[i].quantity, unit_price |-> df[i].unit_price,
         total_price |-> df[i].total_price]]

\* df[["INVOICE_ID", "INVOICE_DATE", "SUBTOTAL", "TAX", "TOTAL"]].copy()
ProjectTotals(df) ==
    [i \in DOMAIN df |->
        [invoice_id |-> df[i].invoice_id, invoice_date |-> df[i].invoice_date,
         subtotal |-> df[i].subtotal, tax |-> df[i].tax, total |-> df[i].total]]

\* The session_state keys a button reads.
ChosenItems(s, b) ==
    IF b = "docai" THEN session_state[s].docai_items
    ELSE session_state[s].edited_transact_items

ChosenTotals(s, b) ==
    IF b = "docai" THEN session_state[s].docai_totals
    ELSE session_state[s].edited_transact_totals

\* The data validation of the submit path.  The keys are always present in
\* st.session_state, so "key not in st.session_state" is false and .empty is
\* evaluated: on None it raises AttributeError outside the try block.
Validate(items, totals) ==
    IF items.isNone THEN "exception"
    ELSE IF items.df = <<>> THEN "warn_items"
    ELSE IF totals.isNone THEN "exception"
    ELSE IF totals.df = <<>> THEN "warn_totals"
    ELSE "valid"

\* gold_df['INVOICE_ID'] = selected_invoice_id
SetInvoiceId(df, inv) == [i \in DOMAIN df |-> [df[i] EXCEPT !.invoice_id = inv]]

\* datetime.now(): every reading of the clock is later than the one before.
ClockReading == now + 1

\* One of the two accept buttons is pressed for the selected invoice.
Accept(s, b) ==
    /\ pc[s] = "idle"
    /\ selected_invoice_id[s] # NoInvoice
    /\ accepts < MaxAccepts
    /\ accepts' = accepts + 1
    /\ button' = [button EXCEPT ![s] = b]
    /\ LET items  == ChosenItems(s, b)
           totals == ChosenTotals(s, b)
           v      == Validate(items, totals)
       IN  /\ pre' = [pre EXCEPT ![s] = View(selected_invoice_id[s])]
           /\ alone' = [alone EXCEPT ![s] = TRUE]
           /\ issued' = [issued EXCEPT ![s] = <<>>]
           /\ IF v = "valid"
              THEN /\ now' = ClockReading
                   /\ current_ts' = [current_ts EXCEPT ![s] = ClockReading]
                   /\ gold_items_df' = [gold_items_df EXCEPT ![s] =
                         SetInvoiceId(IF b = "docai" THEN ProjectItems(items.df)
                                      ELSE items.df, selected_invoice_id[s])]
                   /\ gold_totals_df' = [gold_totals_df EXCEPT ![s] =
                         SetInvoiceId(IF b = "docai" THEN ProjectTotals(totals.df)
                                      ELSE totals.df, selected_invoice_id[s])]
                   /\ pc' = [pc EXCEPT ![s] = "delete_items"]
                   /\ outcome' = [outcome EXCEPT ![s] = "running"]
              ELSE /\ outcome' = [outcome EXCEPT ![s] = v]
                   /\ pc' = [pc EXCEPT ![s] = "reported"]
                   /\ UNCHANGED <<now, current_ts, gold_items_df, gold_totals_df>>
    /\ UNCHANGED <<cacheVars, pageVars, pdfVars, uploadVars, inputs, bronze, storeVars, CURRENT_USER, selected_invoice_id,
                   session_state, todo, failures>>

AcceptDocai(s) == Accept(s, "docai")

AcceptManual(s) == Accept(s, "manual")

\* --------------------------------------------------- the commit statements

\* The row INSERT INTO GOLD_INVOICE_ITEMS ... VALUES (...) adds for one
\* dataframe row.
GoldItemRow(row, user, ts, notes) ==
    [invoice_id |-> row.invoice_id,
     product_name |-> SqlLiteral(SqlEscape(row.product_name)),
     quantity |-> row.quantity, unit_price |-> row.unit_price,
     total_price |-> row.total_price,
     reviewed_by |-> user, reviewed_timestamp |-> Strftime(ts),
     notes |-> SqlLiteral(SqlEscape(notes))]

\* The row INSERT INTO GOLD_INVOICE_TOTALS ... VALUES (...) adds.
GoldTotalRow(row, user, ts, notes) ==
    [invoice_id |-> row.invoice_id, invoice_date |-> row.invoice_date,
     subtotal |-> row.subtotal, tax |-> row.tax, total |-> row.total,
     reviewed_by |-> user, reviewed_timestamp |-> Strftime(ts),
     notes |-> SqlLiteral(SqlEscape(notes))]

\* A variant of the UPDATE that matches no row.
UpdateNoRow(table, inv, user, ts, notes) == table

\* UPDATE reconcile table SET REVIEW_STATUS = 'Reviewed', ... WHERE INVOICE_ID = inv
UpdateReviewed(table, inv, user, ts, notes) ==
    {IF r.invoice_id = inv
     THEN [r EXCEPT !.review_status = "Reviewed", !.reviewed_by = user,
                    !.reviewed_timestamp = Strftime(ts),
                    !.notes = SqlLiteral(SqlEscape(notes))]
     ELSE r : r \in table}

\* A variant of the clear that keeps every entry.
CacheKeep(cache) == cache

\* st.cache_data.clear(): no function has a cached entry any more.
CacheClear(cache) == [f \in DOMAIN cache |-> NoEntry]

\* The cache once the last statement of a commit has returned: every entry
\* there is was created before the write completed (before_write records
\* that), and line 654 clears the cache.
CacheAfterCommit(cache) ==
    CacheClear([f \in DOMAIN cache |->
                   IF cache[f].present THEN [cache[f] EXCEPT !.before_write = TRUE]
                   ELSE cache[f]])

\* Where the submit path stands once the statement at pc[s] has returned.
AfterStatement(s) ==
    CASE pc[s] = "delete_items"  -> [pc |-> "insert_items", todo |-> gold_items_df[s]]
      [] pc[s] = "insert_items"  -> IF Len(todo[s]) > 1
                                    THEN [pc |-> "insert_items", todo |-> Tail(todo[s])]
                                    ELSE [pc |-> "delete_totals", todo |-> <<>>]
      [] pc[s] = "delete_totals" -> [pc |-> "insert_totals", todo |-> gold_totals_df[s]]
      [] pc[s] = "insert_totals" -> IF Len(todo[s]) > 1
                                    THEN [pc |-> "insert_totals", todo |-> Tail(todo[s])]
                                    ELSE [pc |-> "update_items", todo |-> <<>>]
      [] pc[s] = "update_items"  -> [pc |-> "update_totals", todo |-> <<>>]
      [] OTHER                   -> [pc |-> "reported", todo |-> <<>>]

\* History: the statement is logged, and a write of the invoice by s ends
\* the "alone" period of every other session that accepted the same invoice.
Logged(s, stmt, ok) ==
    /\ issued' = [issued EXCEPT ![s] = Append(@, [stmt |-> stmt, ok |-> ok])]
    /\ alone' = [o \in Sessions |->
                    IF ok /\ o # s /\ pre[o].invoice_id = selected_invoice_id[s]
                    THEN FALSE ELSE alone[o]]

\* The statement returned: the script goes on to the next one.
Returned(s, stmt) ==
    /\ Logged(s, stmt, TRUE)
    /\ st_cache' = IF stmt = "UPDATE_TOTALS" THEN CacheAfterCommit(st_cache) ELSE st_cache
    /\ pc' = [pc EXCEPT ![s] = AfterStatement(s).pc]
    /\ todo' = [todo EXCEPT ![s] = AfterStatement(s).todo]
    /\ UNCHANGED <<pageVars, pdfVars, uploadVars, inputs, bronze, now, CURRENT_USER, session_state, gold_items_df,
                   gold_totals_df, current_ts, pre, button, boundVars>>

\* A variant of the handler that logs the failure and carries on.
RaisedAndSwallowed(s, stmt) ==
    /\ failures < MaxFailures
    /\ failures' = failures + 1
    /\ Logged(s, stmt, FALSE)
    /\ pc' = [pc EXCEPT ![s] = AfterStatement(s).pc]
    /\ todo' = [todo EXCEPT ![s] = AfterStatement(s).todo]
    /\ outcome' = [outcome EXCEPT ![s] =
                      IF AfterStatement(s).pc = "reported" THEN "success" ELSE @]
    /\ UNCHANGED <<cacheVars, pageVars, pdfVars, uploadVars, inputs, bronze, storeVars, now, CURRENT_USER, selected_invoice_id,
                   session_state, gold_items_df, gold_totals_df, current_ts, pre,
                   button, accepts>>

\* The statement raised: "except Exception as e: st.error(...)" ends the
\* action; the statement itself changed nothing in the store.
Raised(s, stmt) ==
    /\ failures < MaxFailures
    /\ failures' = failures + 1
    /\ Logged(s, stmt, FALSE)
    /\ pc' = [pc EXCEPT ![s] = "reported"]
    /\ todo' = [todo EXCEPT ![s] = <<>>]
    /\ outcome' = [outcome EXCEPT ![s] = "error"]
    /\ UNCHANGED <<cacheVars, pageVars, pdfVars, uploadVars, inputs, bronze, storeVars, now, CURRENT_USER, selected_invoice_id,
                   session_state, gold_items_df, gold_totals_df, current_ts, pre,
                   button, accepts>>

\* The invoice was listed under the 'Reviewed' filter when accept was pressed.
HadReviewedRow(s) ==
    \E r \in pre[s].ri \cup pre[s].rt : r.review_status = "Reviewed"

\* conn.query("DELETE FROM GOLD_INVOICE_ITEMS WHERE INVOICE_ID = ...")
DeleteGoldItems(s) ==
    /\ pc[s] = "delete_items"
    /\ gold_items' = DeleteWhere(gold_items, selected_invoice_id[s])
    /\ Returned(s, "DELETE_ITEMS")
    /\ UNCHANGED <<gold_totals, reconcile_items, reconcile_totals,
                   selected_invoice_id, outcome>>

DeleteGoldItemsRaises(s) == pc[s] = "delete_items" /\ Raised(s, "DELETE_ITEMS")

\* One pass of "for _, row in gold_items_df.iterrows(): conn.query(INSERT ...)"
InsertGoldItem(s) ==
    /\ pc[s] = "insert_items"
    /\ gold_items' = gold_items (+)
          SetToBag({GoldItemRow(Head(todo[s]), CURRENT_USER[s], current_ts[s], NotesOf(s))})
    /\ Returned(s, "INSERT_ITEM")
    /\ UNCHANGED <<gold_totals, reconcile_items, reconcile_totals,
                   selected_invoice_id, outcome>>

InsertGoldItemRaises(s) == pc[s] = "insert_items" /\ Raised(s, "INSERT_ITEM")

\* conn.query("DELETE FROM GOLD_INVOICE_TOTALS WHERE INVOICE_ID = ...")
DeleteGoldTotals(s) ==
    /\ pc[s] = "delete_totals"
    /\ gold_totals' = DeleteWhere(gold_totals, selected_invoice_id[s])
    /\ Returned(s, "DELETE_TOTALS")
    /\ UNCHANGED <<gold_items, reconcile_items, reconcile_totals,
                   selected_invoice_id, outcome>>

DeleteGoldTotalsRaises(s) == pc[s] = "delete_totals" /\ Raised(s, "DELETE_TOTALS")

\* One pass of "for _, row in gold_totals_df.iterrows(): conn.query(INSERT ...)"
InsertGoldTotal(s) ==
    /\ pc[s] = "insert_totals"
    /\ gold_totals' = gold_totals (+)
          SetToBag({GoldTotalRow(Head(todo[s]), CURRENT_USER[s], current_ts[s], NotesOf(s))})
    /\ Returned(s, "INSERT_TOTAL")
    /\ UNCHANGED <<gold_items, reconcile_items, reconcile_totals,
                   selected_invoice_id, outcome>>

InsertGoldTotalRaises(s) == pc[s] = "insert_totals" /\ Raised(s, "INSERT_TOTAL")

\* conn.query("UPDATE RECONCILE_RESULTS_ITEMS SET REVIEW_STATUS = 'Reviewed' ...")
UpdateReconcileItems(s) ==
    /\ pc[s] = "update_items"
    /\ reconcile_items' = UpdateReviewed(reconcile_items, selected_invoice_id[s],
                                         CURRENT_USER[s], current_ts[s], NotesOf(s))
    /\ Returned(s, "UPDATE_ITEMS")
    /\ UNCHANGED <<gold_items, gold_totals, reconcile_totals,
                   selected_invoice_id, outcome>>

UpdateReconcileItemsRaises(s) == pc[s] = "update_items" /\ Raised(s, "UPDATE_ITEMS")

\* conn.query("UPDATE RECONCILE_RESULTS_TOTALS SET REVIEW_STATUS = 'Reviewed' ...")
\* followed by st.success, st.cache_data.clear() and st.rerun().  On the rerun
\* the selectbox keeps the invoice only if the chosen status filter still
\* lists it, that is if the filter is 'Reviewed'; the filter is not part of
\* the state, so the invoice may be kept if it had a 'Reviewed' row when the
\* accept was pressed.
UpdateReconcileTotals(s) ==
    /\ pc[s] = "update_totals"
    /\ reconcile_totals' = UpdateReviewed(reconcile_totals, selected_invoice_id[s],
                                          CURRENT_USER[s], current_ts[s], NotesOf(s))
    /\ Returned(s, "UPDATE_TOTALS")
    /\ outcome' = [outcome EXCEPT ![s] = "success"]
    /\ \E keep \in {FALSE} \cup {HadReviewedRow(s)} :
          selected_invoice_id' = [selected_invoice_id EXCEPT ![s] =
                                     IF keep THEN @ ELSE NoInvoice]
    /\ UNCHANGED <<gold_items, gold_totals, reconcile_items>>

UpdateReconcileTotalsRaises(s) == pc[s] = "update_totals" /\ Raised(s, "UPDATE_TOTALS")

\* The script run that handled the accept is over (after st.rerun(), or at
\* the end of the script): its locals are gone and the page waits for the
\* next interaction.
EndRun(s) ==
    /\ pc[s] = "reported"
    /\ pc' = [pc EXCEPT ![s] = "idle"]
    /\ gold_items_df' = [gold_items_df EXCEPT ![s] = <<>>]
    /\ gold_totals_df' = [gold_totals_df EXCEPT ![s] = <<>>]
    /\ current_ts' = [current_ts EXCEPT ![s] = 0]
    /\ button' = [button EXCEPT ![s] = "none"]
    /\ outcome' = [outcome EXCEPT ![s] = "none"]
    /\ issued' = [issued EXCEPT ![s] = <<>>]
    /\ pre' = [pre EXCEPT ![s] = NoView]
    /\ alone' = [alone EXCEPT ![s] = FALSE]
    /\ UNCHANGED <<cacheVars, pageVars, pdfVars, uploadVars, inputs, bronze, storeVars, now, CURRENT_USER, selected_invoice_id,
                   session_state, todo, boundVars>>

\* ------------------------------------------------------------ specification

\* What a reviewer and the store do with the page: select, accept, and
\* the statements of the commit.
Review(s) ==
    \/ SelectInvoice(s)
    \/ AcceptDocai(s)
    \/ AcceptManual(s)
    \/ DeleteGoldItems(s)
    \/ InsertGoldItem(s)
    \/ DeleteGoldTotals(s)
    \/ InsertGoldTotal(s)
    \/ UpdateReconcileItems(s)
    \/ UpdateReconcileTotals(s)
    \/ EndRun(s)

\* One reviewer, who also edits, with store calls that may raise.
Next ==
    \/ Review("s1")
    \/ EditItems("s1")
    \/ EditTotals("s1")
    \/ SelectInvoiceLoadFails("s1")
    \/ DeleteGoldItemsRaises("s1")
    \/ InsertGoldItemRaises("s1")
    \/ DeleteGoldTotalsRaises("s1")
    \/ InsertGoldTotalRaises("s1")
    \/ UpdateReconcileItemsRaises("s1")
    \/ UpdateReconcileTotalsRaises("s1")

Spec == Init /\ [][Next]_vars

\* Two reviewers whose store statements interleave.
InitTwo == Init /\ CURRENT_USER = [s \in Sessions |-> Account(s)]

NextTwo == \E s \in Sessions : Review(s)

SpecTwo == InitTwo /\ [][NextTwo]_vars

\* ------------------------------------------------------------------ claims

\* The statements of a commit are issued at these positions.
CommitPcs == {"delete_items", "insert_items", "delete_totals", "insert_totals",
              "update_items", "update_totals"}

\* The invoice the run of session s accepts.
AcceptedInvoice(s) == pre[s].invoice_id

\* The gold rows the commit of session s writes when every INSERT returns.
CommitItems(s) ==
    SeqToBag([i \in DOMAIN gold_items_df[s] |->
                 GoldItemRow(gold_items_df[s][i], CURRENT_USER[s], current_ts[s], NotesOf(s))])

CommitTotals(s) ==
    SeqToBag([i \in DOMAIN gold_totals_df[s] |->
                 GoldTotalRow(gold_totals_df[s][i], CURRENT_USER[s], current_ts[s], NotesOf(s))])

\* The run of s reported a completed commit and no other session has written
\* the invoice since s pressed accept.
CommittedAlone(s) == pc[s] = "reported" /\ outcome[s] = "success" /\ alone[s]

\* C1: after a successful commit that no other commit for the same invoice
\* overlaps or follows, the gold items and gold totals of the invoice are
\* exactly the rows of that commit: nothing of an earlier commit remains, the
\* row counts are those of the accepted dataframes, and every row carries the
\* commit's reviewed_timestamp.
C1_GoldHoldsLastCommit ==
    \A s \in Sessions :
        CommittedAlone(s) =>
            LET items  == WhereInvoice(gold_items, AcceptedInvoice(s))
                totals == WhereInvoice(gold_totals, AcceptedInvoice(s))
            IN  /\ items = CommitItems(s)
                /\ totals = CommitTotals(s)
                /\ BagCardinality(items) = Len(gold_items_df[s])
                /\ BagCardinality(totals) = Len(gold_totals_df[s])
                /\ \A r \in DOMAIN items \cup DOMAIN totals :
                      r.reviewed_timestamp = Strftime(current_ts[s])

\* C1 witness: a commit replaced the rows of an earlier commit of the same
\* dataframes (same values, an older reviewed_timestamp).
C1_Witness ==
    \E s \in Sessions :
        /\ CommittedAlone(s)
        /\ BagCardinality(pre[s].items) = Len(gold_items_df[s])
        /\ BagCardinality(pre[s].totals) = Len(gold_totals_df[s])
        /\ \A r \in DOMAIN pre[s].items \cup DOMAIN pre[s].totals :
              /\ r.reviewed_timestamp # Strftime(current_ts[s])
              /\ [r EXCEPT !.reviewed_timestamp = Strftime(current_ts[s])]
                    \in DOMAIN CommitItems(s) \cup DOMAIN CommitTotals(s)

\* The rows the source chosen with button b holds for invoice inv: the
\* document-AI rows of the invoice, or what its editors show (nothing when the
\* invoice has no transactional rows).
SourceItems(s, b, inv) ==
    IF b = "docai" THEN load_bronze_data(inv).docai_items
    ELSE IF load_bronze_data(inv).transact_items = <<>> THEN <<>>
    ELSE IF session_state[s].edited_transact_items.isNone
         THEN load_bronze_data(inv).transact_items
    ELSE session_state[s].edited_transact_items.df

SourceTotals(s, b, inv) ==
    IF b = "docai" THEN load_bronze_data(inv).docai_totals
    ELSE IF load_bronze_data(inv).transact_totals = <<>> THEN <<>>
    ELSE IF session_state[s].edited_transact_totals.isNone
         THEN Head1(load_bronze_data(inv).transact_totals)
    ELSE session_state[s].edited_transact_totals.df

\* C2: an accept whose chosen source has no items, or no totals, for the
\* selected invoice is rejected with the warning that names the missing
\* piece, issues no store statement and leaves the invoice's gold rows and
\* review statuses as they were.
C2_EmptySourceRejected ==
    \A s \in Sessions :
        button[s] # "none" =>
            LET inv    == AcceptedInvoice(s)
                items  == SourceItems(s, button[s], inv)
                totals == SourceTotals(s, button[s], inv)
            IN  (items = <<>> \/ totals = <<>>) =>
                    /\ outcome[s] = IF items = <<>> THEN "warn_items" ELSE "warn_totals"
                    /\ issued[s] = <<>>
                    /\ View(inv) = pre[s]

\* C3: when a store statement of the commit raised, the invoice's gold items,
\* gold totals and review statuses are what they were when accept was pressed.
C3_FailedCommitLeavesStoreAsBefore ==
    \A s \in Sessions :
        (outcome[s] = "error" /\ alone[s]) => View(AcceptedInvoice(s)) = pre[s]

\* C4: a statement that raises is the last statement of its commit, and the
\* run ends reporting an error: nothing after it is executed (no later write,
\* no status update, no success report with cache clear and rerun).
C4_RaiseAbortsAndIsReported ==
    \A s \in Sessions :
        \A i \in DOMAIN issued[s] :
            ~issued[s][i].ok =>
                /\ i = Len(issued[s])
                /\ pc[s] = "reported"
                /\ outcome[s] = "error"

\* C4 witness: an INSERT into the gold items raised after the DELETE for the
\* same table had succeeded.
C4_Witness ==
    \E s \in Sessions :
        /\ outcome[s] = "error"
        /\ Len(issued[s]) >= 2
        /\ issued[s][1] = [stmt |-> "DELETE_ITEMS", ok |-> TRUE]
        /\ issued[s][Len(issued[s])] = [stmt |-> "INSERT_ITEM", ok |-> FALSE]

\* C5: a run that reports a completed commit has written the gold rows and
\* then issued both status updates, and every reconcile row of the invoice,
\* in both reconcile tables, has REVIEW_STATUS = 'Reviewed'.
C5_CompletedCommitIsReviewed ==
    \A s \in Sessions :
        outcome[s] = "success" =>
            LET n == Len(issued[s]) IN
            /\ n >= 6
            /\ issued[s][n].stmt = "UPDATE_TOTALS"
            /\ issued[s][n - 1].stmt = "UPDATE_ITEMS"
            /\ \A i \in 1..(n - 2) :
                  issued[s][i].stmt \in {"DELETE_ITEMS", "INSERT_ITEM",
                                         "DELETE_TOTALS", "INSERT_TOTAL"}
            /\ \E i \in 1..(n - 2) : issued[s][i].stmt = "INSERT_ITEM"
            /\ \E i \in 1..(n - 2) : issued[s][i].stmt = "INSERT_TOTAL"
            /\ \A i \in 1..n : issued[s][i].ok
            /\ \A r \in View(AcceptedInvoice(s)).ri \cup View(AcceptedInvoice(s)).rt :
                  r.review_status = "Reviewed"

\* C5 witness: a completed commit for an invoice that was 'Pending Review' in
\* both reconcile tables when accept was pressed.
C5_Witness ==
    \E s \in Sessions :
        /\ outcome[s] = "success"
        /\ pre[s].ri # {}
        /\ pre[s].rt # {}
        /\ \A r \in pre[s].ri \cup pre[s].rt : r.review_status = "Pending Review"

\* C6: every gold row carries the account of a reviewer and a timestamp, and
\* the rows of a completed commit carry the account of the user who pressed
\* accept and the time of that commit (to the second).
C6_GoldRowsCarryReviewerAndTime ==
    /\ \A r \in DOMAIN gold_items \cup DOMAIN gold_totals :
          /\ r.reviewed_by \in {Account(s) : s \in Sessions}
          /\ r.reviewed_timestamp # NullTime
    /\ \A s \in Sessions :
          CommittedAlone(s) =>
              \A r \in DOMAIN WhereInvoice(gold_items, AcceptedInvoice(s))
                       \cup DOMAIN WhereInvoice(gold_totals, AcceptedInvoice(s)) :
                  /\ r.reviewed_by = Account(s)
                  /\ r.reviewed_timestamp = Strftime(current_ts[s])

\* A gold row without the fields the commit adds.
StripItem(r) ==
    [invoice_id |-> r.invoice_id, product_name |-> r.product_name,
     quantity |-> r.quantity, unit_price |-> r.unit_price,
     total_price |-> r.total_price]

StripTotal(r) ==
    [invoice_id |-> r.invoice_id, invoice_date |-> r.invoice_date,
     subtotal |-> r.subtotal, tax |-> r.tax, total |-> r.total]

\* The bag of the given rows of table, each row r reduced to strip[r].
RECURSIVE StrippedRows(_, _, _)
StrippedRows(table, rows, strip) ==
    IF rows = {} THEN EmptyBag
    ELSE LET r == CHOOSE x \in rows : TRUE
         IN  [e \in {strip[r]} |-> table[r]] (+) StrippedRows(table, rows \ {r}, strip)

\* C7: after the document-AI values of an invoice were accepted, the gold
\* rows of the invoice, without reviewed_by, reviewed_timestamp and notes, are
\* the invoice's DOCAI_INVOICE_ITEMS and DOCAI_INVOICE_TOTALS rows.
C7_DocaiRoundTrip ==
    \A s \in Sessions :
        (CommittedAlone(s) /\ button[s] = "docai") =>
            LET inv    == AcceptedInvoice(s)
                items  == WhereInvoice(gold_items, inv)
                totals == WhereInvoice(gold_totals, inv)
            IN  /\ StrippedRows(items, DOMAIN items, [r \in DOMAIN items |-> StripItem(r)])
                      = SeqToBag(ProjectItems(load_bronze_data(inv).docai_items))
                /\ StrippedRows(totals, DOMAIN totals, [r \in DOMAIN totals |-> StripTotal(r)])
                      = SeqToBag(ProjectTotals(load_bronze_data(inv).docai_totals))

\* C8: when the commits of two reviewers for the same invoice have both run
\* to completion, the invoice's gold items and gold totals are the rows of
\* one of the two commits.
C8_LastWriteWins ==
    \A a, b \in Sessions :
        (/\ a # b
         /\ pc[a] = "reported" /\ outcome[a] = "success"
         /\ pc[b] = "reported" /\ outcome[b] = "success"
         /\ AcceptedInvoice(a) = AcceptedInvoice(b)) =>
            \E w \in {a, b} :
                /\ WhereInvoice(gold_items, AcceptedInvoice(a)) = CommitItems(w)
                /\ WhereInvoice(gold_totals, AcceptedInvoice(a)) = CommitTotals(w)

\* What a read of the invoice returns once the commit of s is complete.
PostView(s) ==
    [invoice_id |-> AcceptedInvoice(s),
     items  |-> CommitItems(s),
     totals |-> CommitTotals(s),
     ri     |-> UpdateReviewed(pre[s].ri, AcceptedInvoice(s), CURRENT_USER[s],
                               current_ts[s], NotesOf(s)),
     rt     |-> UpdateReviewed(pre[s].rt, AcceptedInvoice(s), CURRENT_USER[s],
                               current_ts[s], NotesOf(s))]

\* C9: while a commit for an invoice is under way (and nobody else writes
\* the invoice), what another session reads of the invoice when it draws its
\* page is either the state before the commit or the state after it.
C9_ReadsSeeWholeCommit ==
    \A s \in Sessions :
        (pc[s] \in CommitPcs /\ alone[s]) =>
            \A r \in Sessions \ {s} :
                pc[r] = "idle" =>
                    View(AcceptedInvoice(s)) \in {pre[s], PostView(s)}

\* C10: a step changes the gold rows or the reconcile rows of an invoice only
\* if it is a store statement of a commit for that invoice; no step changes a
\* bronze table, and no step removes a reconcile row.
C10_CommitTouchesOnlyItsInvoice ==
    [][/\ \A inv \in Invoices :
             View(inv)' # View(inv) =>
                 \E s \in Sessions :
                     /\ pc[s] \in CommitPcs
                     /\ selected_invoice_id[s] = inv
                     /\ AcceptedInvoice(s) = inv
                     /\ Len(issued'[s]) = Len(issued[s]) + 1
       /\ bronze' = bronze
       /\ {r.invoice_id : r \in reconcile_items'} = {r.invoice_id : r \in reconcile_items}
       /\ {r.invoice_id : r \in reconcile_totals'} = {r.invoice_id : r \in reconcile_totals}
       /\ Cardinality(reconcile_items') = Cardinality(reconcile_items)
       /\ Cardinality(reconcile_totals') = Cardinality(reconcile_totals)]_vars

\* C10 witness: two commits for different invoices are under way, both have
\* issued statements, and both invoices have gold item rows.
C10_Witness ==
    \E a, b \in Sessions :
        /\ pc[a] \in CommitPcs
        /\ pc[b] \in CommitPcs
        /\ AcceptedInvoice(a) # AcceptedInvoice(b)
        /\ Len(issued[a]) >= 2
        /\ Len(issued[b]) >= 2
        /\ WhereInvoice(gold_items, AcceptedInvoice(a)) # EmptyBag
        /\ WhereInvoice(gold_items, AcceptedInvoice(b)) # EmptyBag

\* ------------------------------------------------- the metrics aggregator

\* The data rows a table of the metrics check may hold: at most MaxRows.
MaxRows == 2

\* A cell of the one-row dataframe conn.query returns: a number, or what the
\* driver puts in the dataframe for a SQL NULL.
Num(n) == [kind |-> "num", v |-> n]

NoneCell == [kind |-> "None", v |-> 0]

NaN == [kind |-> "NaN", v |-> 0]

\* A NULL of a numeric column reaches pandas as None (object column) or as
\* NaN (float64 column), depending on the column type the driver chooses.
NullCells == {NoneCell, NaN}

\* Python "x or d": None and zero are falsy, NaN is truthy.
PyOr(x, d) == IF x.kind = "None" \/ (x.kind = "num" /\ x.v = 0) THEN Num(d) ELSE x

\* float(a) / float(b) for b != 0, kept as a fraction; NaN if either is NaN.
PyFloatDiv(a, b) ==
    IF a.kind = "NaN" \/ b.kind = "NaN" THEN [kind |-> "NaN", num |-> 0, den |-> 1]
    ELSE [kind |-> "num", num |-> a.v, den |-> b.v]

\* The literal 0.0 of the two "else" branches.
ZeroRatio == [kind |-> "num", num |-> 0, den |-> 1]

RECURSIVE SumTotals(_)
SumTotals(rows) ==
    IF rows = <<>> THEN 0 ELSE Head(rows).total + SumTotals(Tail(rows))

\* SUM(...) over the rows of the FROM clause: NULL when there is no row.
SqlSum(rows, picked, null) == IF rows = <<>> THEN null ELSE Num(SumTotals(picked))

\* EXISTS (SELECT 1 FROM gold WHERE invoice_id = inv)
ExistsGold(gold, inv) == \E r \in DOMAIN gold : r.invoice_id = inv

\* EXISTS (SELECT 1 FROM gold WHERE invoice_id = inv AND reviewed_by = 'Auto-reconciled')
ExistsAutoGold(gold, inv) ==
    \E r \in DOMAIN gold : r.invoice_id = inv /\ r.reviewed_by = "Auto-reconciled"

\* A variant of the CASE condition with OR in place of AND.
InEitherGold(gi, gt, inv) == ExistsGold(gt, inv) \/ ExistsGold(gi, inv)

\* The condition of the two CASE expressions for "reconciled".
InBothGold(gi, gt, inv) == ExistsGold(gt, inv) /\ ExistsGold(gi, inv)

\* (float(reconciled_invoices) / float(total_invoices)) if total_invoices > 0 else 0.0
CountRatio(reconciled, total) ==
    IF total > 0 THEN PyFloatDiv(Num(reconciled), Num(total)) ELSE ZeroRatio

\* (float(total_reconciled) / float(grand_total)) if grand_total != 0 else 0.0
AmountRatio(total_reconciled, grand_total) ==
    IF ~(grand_total.kind = "num" /\ grand_total.v = 0)
    THEN PyFloatDiv(total_reconciled, grand_total) ELSE ZeroRatio

\* get_invoice_reconciliation_metrics() when the query returns: the SQL
\* aggregates over TRANSACT_TOTALS (tt) and the two gold tables, then the
\* Python defaults and ratios.  null is how the driver delivers a NULL.
get_invoice_reconciliation_metrics(tt, gi, gt, null) ==
    LET ids           == {tt[i].invoice_id : i \in DOMAIN tt}
        reconciledIds == {inv \in ids : InBothGold(gi, gt, inv)}
        autoIds       == {inv \in ids : ExistsAutoGold(gt, inv) /\ ExistsAutoGold(gi, inv)}
        total_invoices      == Cardinality(ids)
        grand_total         == PyOr(SqlSum(tt, tt, null), 0)
        reconciled_invoices == Cardinality(reconciledIds)
        total_reconciled    ==
            PyOr(SqlSum(tt, SelectSeq(tt, LAMBDA r : r.invoice_id \in reconciledIds), null), 0)
    IN  [kind |-> "metrics",
         total_invoice_count      |-> total_invoices,
         grand_total_amount       |-> grand_total,
         reconciled_invoice_count |-> reconciled_invoices,
         total_reconciled_amount  |-> total_reconciled,
         reconciled_invoice_ratio |-> CountRatio(reconciled_invoices, total_invoices),
         reconciled_amount_ratio  |-> AmountRatio(total_reconciled, grand_total),
         count_auto_reconciled    |-> Cardinality(autoIds)]

\* show_reconciliation draws the metrics: the query returned.
GetMetrics ==
    /\ \E null \in NullCells :
          reconciliation_data' =
              get_invoice_reconciliation_metrics(bronze.transact_totals, gold_items,
                                                 gold_totals, null)
    /\ UNCHANGED <<pdfVars, uploadVars, inputs, bronze, storeVars, now, CURRENT_USER, sessVars, histVars, boundVars,
                   returned, cacheVars>>

\* The query raised: st.error, and the function returns None.
GetMetricsFails ==
    /\ reconciliation_data' = [kind |-> "error"]
    /\ UNCHANGED <<pdfVars, uploadVars, inputs, bronze, storeVars, now, CURRENT_USER, sessVars, histVars, boundVars,
                   returned, cacheVars>>

\* The totals a TRANSACT_TOTALS row of the metrics check may carry.
TotalValues == {0, 5, 0 - 5}

TransactTotalsRows ==
    {[invoice_id |-> inv, invoice_date |-> 1, subtotal |-> t, tax |-> 0, total |-> t] :
        inv \in Invoices, t \in TotalValues}

RECURSIVE SeqsUpTo(_, _)
SeqsUpTo(S, n) ==
    IF n = 0 THEN {<<>>}
    ELSE SeqsUpTo(S, n - 1) \cup {Append(q, x) : q \in {y \in SeqsUpTo(S, n - 1) : Len(y) = n - 1}, x \in S}

\* Gold rows as a commit or the external automation leaves them.
GoldItemsRows ==
    {[invoice_id |-> inv, product_name |-> <<"A">>, quantity |-> 1, unit_price |-> 5,
      total_price |-> 5, reviewed_by |-> u, reviewed_timestamp |-> 0, notes |-> <<>>] :
        inv \in Invoices, u \in {"ALICE", "Auto-reconciled"}}

GoldTotalsRows ==
    {[invoice_id |-> inv, invoice_date |-> 1, subtotal |-> 5, tax |-> 0, total |-> 5,
      reviewed_by |-> u, reviewed_timestamp |-> 0, notes |-> <<>>] :
        inv \in Invoices, u \in {"ALICE", "Auto-reconciled"}}

\* Any TRANSACT_TOTALS of at most MaxRows rows, and any gold tables.
InitMetrics ==
    /\ bronze \in {[transact_items  |-> <<>>, transact_totals |-> tt,
                    docai_items     |-> <<>>, docai_totals    |-> <<>>] :
                      tt \in SeqsUpTo(TransactTotalsRows, MaxRows)}
    /\ gold_items \in {SetToBag(g) : g \in SUBSET GoldItemsRows}
    /\ gold_totals \in {SetToBag(g) : g \in SUBSET GoldTotalsRows}
    /\ reconcile_items = {}
    /\ reconcile_totals = {}
    /\ InitSession
    /\ CURRENT_USER = [s \in Sessions |-> Account(s)]

NextMetrics == GetMetrics \/ GetMetricsFails

SpecMetrics == InitMetrics /\ [][NextMetrics]_vars

\* C11: the metrics the page holds have no ratio with denominator 0; with no
\* row in TRANSACT_TOTALS they report total_invoice_count = 0 and both ratios
\* 0; and a ratio is 0 whenever its denominator is 0.
C11_ZeroRatiosWhenNoInvoices ==
    reconciliation_data.kind = "metrics" =>
        LET m == reconciliation_data
            IsZero(r) == r.kind = "num" /\ r.num = 0 /\ r.den # 0
        IN  /\ m.reconciled_invoice_ratio.den # 0
            /\ m.reconciled_amount_ratio.den # 0
            /\ bronze.transact_totals = <<>> =>
                  /\ m.total_invoice_count = 0
                  /\ IsZero(m.reconciled_invoice_ratio)
                  /\ IsZero(m.reconciled_amount_ratio)
            /\ m.total_invoice_count = 0 => IsZero(m.reconciled_invoice_ratio)
            /\ m.grand_total_amount = Num(0) => IsZero(m.reconciled_amount_ratio)

\* The invoices with at least one row in GOLD_INVOICE_ITEMS and at least one
\* row in GOLD_INVOICE_TOTALS.
GoldInBoth ==
    {inv \in Invoices : /\ \E r \in DOMAIN gold_items : r.invoice_id = inv
                        /\ \E r \in DOMAIN gold_totals : r.invoice_id = inv}

\* The invoices with a row in TRANSACT_TOTALS.
TransactIds == {inv \in Invoices : \E i \in DOMAIN bronze.transact_totals :
                                      bronze.transact_totals[i].invoice_id = inv}

\* C12 as stated: reconciled_invoice_count is the number of invoices with
\* rows in both gold tables.
C12_CountsEveryGoldInvoice ==
    reconciliation_data.kind = "metrics" =>
        reconciliation_data.reconciled_invoice_count = Cardinality(GoldInBoth)

\* C12 amended: reconciled_invoice_count is the number of invoices of
\* TRANSACT_TOTALS with rows in both gold tables, each counted once; an invoice
\* with gold rows in one table only, or without a TRANSACT_TOTALS row, is not
\* counted.
C12_CountsTransactInvoicesInBothGold ==
    reconciliation_data.kind = "metrics" =>
        reconciliation_data.reconciled_invoice_count
            = Cardinality(GoldInBoth \cap TransactIds)

\* C12 witness: TRANSACT_TOTALS lists two invoices, one with rows in both
\* gold tables and one with gold rows in one table only, and the count is 1.
C12_Witness ==
    /\ reconciliation_data.kind = "metrics"
    /\ reconciliation_data.reconciled_invoice_count = 1
    /\ Cardinality(TransactIds) = 2
    /\ \E inv \in TransactIds :
          /\ inv \notin GoldInBoth
          /\ \E r \in DOMAIN gold_items \cup DOMAIN gold_totals : r.invoice_id = inv

\* A ratio that is a number between 0 and 1.
InUnitInterval(r) == r.kind = "num" /\ r.den > 0 /\ 0 <= r.num /\ r.num <= r.den

\* No row of TRANSACT_TOTALS has a negative total.
NoNegativeTotal ==
    \A i \in DOMAIN bronze.transact_totals : bronze.transact_totals[i].total >= 0

\* C13: the metrics satisfy 0 <= count_auto_reconciled <=
\* reconciled_invoice_count <= total_invoice_count, and, when no transactional
\* total is negative, 0 <= total_reconciled_amount <= grand_total_amount and
\* both ratios lie between 0 and 1.
C13_MetricsAreOrdered ==
    reconciliation_data.kind = "metrics" =>
        LET m == reconciliation_data IN
        /\ 0 <= m.count_auto_reconciled
        /\ m.count_auto_reconciled <= m.reconciled_invoice_count
        /\ m.reconciled_invoice_count <= m.total_invoice_count
        /\ InUnitInterval(m.reconciled_invoice_ratio)
        /\ NoNegativeTotal =>
              /\ m.total_reconciled_amount.kind = "num"
              /\ m.grand_total_amount.kind = "num"
              /\ 0 <= m.total_reconciled_amount.v
              /\ m.total_reconciled_amount.v <= m.grand_total_amount.v
              /\ InUnitInterval(m.reconciled_amount_ratio)

\* The metrics a call returns in the current store state.
MetricsNow ==
    get_invoice_reconciliation_metrics(bronze.transact_totals, gold_items, gold_totals,
                                       NoneCell)

\* The metrics a call returned when session s pressed accept (no other
\* session has written since).
MetricsBefore(s) ==
    get_invoice_reconciliation_metrics(
        bronze.transact_totals,
        DeleteWhere(gold_items, AcceptedInvoice(s)) (+) pre[s].items,
        DeleteWhere(gold_totals, AcceptedInvoice(s)) (+) pre[s].totals,
        NoneCell)

\* The run of s completed a commit of the manual edits of an invoice that
\* has a TRANSACT_TOTALS row.
ManualCommitDone(s) ==
    /\ CommittedAlone(s)
    /\ button[s] = "manual"
    /\ AcceptedInvoice(s) \in TransactIds

\* C14: after a commit of manual edits for an invoice of TRANSACT_TOTALS that
\* had no gold rows, the gold total is the edited total, reviewed_by is the
\* reviewer's account and not 'Auto-reconciled', count_auto_reconciled is as
\* before and reconciled_invoice_count is one more than before; for an invoice
\* that already had rows in both gold tables reconciled_invoice_count is as
\* before.
C14_ManualCommitCountsOnce ==
    \A s \in Sessions :
        ManualCommitDone(s) =>
            LET inv    == AcceptedInvoice(s)
                edited == session_state[s].edited_transact_totals.df
                totals == WhereInvoice(gold_totals, inv)
                items  == WhereInvoice(gold_items, inv)
            IN  /\ (pre[s].items = EmptyBag /\ pre[s].totals = EmptyBag) =>
                      /\ totals # EmptyBag
                      /\ \A r \in DOMAIN totals :
                            /\ \E i \in DOMAIN edited : r.total = edited[i].total
                            /\ r.reviewed_by = Account(s)
                            /\ r.reviewed_by # "Auto-reconciled"
                      /\ \A r \in DOMAIN items :
                            /\ r.reviewed_by = Account(s)
                            /\ r.reviewed_by # "Auto-reconciled"
                      /\ MetricsNow.count_auto_reconciled
                            = MetricsBefore(s).count_auto_reconciled
                      /\ MetricsNow.reconciled_invoice_count
                            = MetricsBefore(s).reconciled_invoice_count + 1
                /\ (pre[s].items # EmptyBag /\ pre[s].totals # EmptyBag) =>
                      MetricsNow.reconciled_invoice_count
                          = MetricsBefore(s).reconciled_invoice_count

\* ------------------------------------------------------ the bronze reader

\* The keys of the dict load_bronze_data fills, in the order of its reads.
BronzeKeys == <<"transact_items", "transact_totals", "docai_items", "docai_totals">>

\* The reads of load_bronze_data; read 0 stands for "no read raises".
BronzeReads == 0..Len(BronzeKeys)

\* The dict {} (no key).
EmptyDict == [k \in {} |-> <<>>]

\* What load_bronze_data returns when it does not read all four tables:
\* "if invoice_id:" is false, or a read raised and the handler returns {}.
BronzeDefault == EmptyDict

\* load_bronze_data(invoice_id) where read number failing raises (0: none).
load_bronze_data_call(inv, failing) ==
    IF inv = NoInvoice THEN BronzeDefault
    ELSE IF failing # 0 THEN BronzeDefault
    ELSE load_bronze_data(inv)

\* A call of load_bronze_data and what the caller does with the result:
\* "if bronze_data_dict:" draws section 2 only for a non-empty dict, and
\* section 3 follows in either case.
CallLoadBronze ==
    /\ \E inv \in Invoices \cup {NoInvoice}, failing \in BronzeReads :
          LET d == load_bronze_data_call(inv, failing) IN
          returned' = [fn |-> "load_bronze_data", invoice_id |-> inv,
                       failing |-> IF inv = NoInvoice THEN 0 ELSE failing,
                       value |-> d, section2 |-> (DOMAIN d # {}), section3 |-> TRUE]
    /\ UNCHANGED <<pdfVars, uploadVars, inputs, bronze, storeVars, now, CURRENT_USER, sessVars, histVars, boundVars,
                   reconciliation_data, cacheVars>>

\* Any bronze tables: TRANSACT_TOTALS of at most MaxRows rows, the other
\* tables empty or as in the data above.
InitBronze ==
    /\ bronze \in [transact_items  : {<<>>, TransactItemsData},
                   transact_totals : SeqsUpTo(TransactTotalsRows, MaxRows),
                   docai_items     : {<<>>, DocaiItemsData},
                   docai_totals    : {<<>>, DocaiTotalsData}]
    /\ gold_items = EmptyBag
    /\ gold_totals = EmptyBag
    /\ reconcile_items = {}
    /\ reconcile_totals = {}
    /\ InitSession
    /\ CURRENT_USER = [s \in Sessions |-> Account(s)]

NextBronze == CallLoadBronze

SpecBronze == InitBronze /\ [][NextBronze]_vars

\* C15: a call of load_bronze_data without an invoice_id, or with a read
\* that fails, returns all four datasets, each empty, and the page goes on to
\* its next step.
C15_LoadBronzeReturnsFourEmpty ==
    (/\ returned.fn = "load_bronze_data"
     /\ (returned.invoice_id = NoInvoice \/ returned.failing # 0)) =>
        /\ DOMAIN returned.value = {BronzeKeys[i] : i \in DOMAIN BronzeKeys}
        /\ \A k \in DOMAIN returned.value : returned.value[k] = <<>>
        /\ returned.section3

\* ------------------------------------------------- the reconcile-data cache

\* The invoices load_reconcile_data(status_filter) lists, with their status:
\* the UNION of the rows of both reconcile tables that match the filter.
ListedFor(status_filter) ==
    {[invoice_id |-> r.invoice_id, review_status |-> r.review_status] :
        r \in {x \in reconcile_items \cup reconcile_totals :
                  x.review_status = status_filter \/ status_filter = "All"}}

\* A page of session s is drawn: load_reconcile_data(selected_status) under
\* @st.cache_data(ttl=600).  An entry for the filter is returned as it is;
\* otherwise the function runs (its reads return, or one raises and it
\* returns empty dataframes) and its return value becomes the entry.
LoadReconcile(s) ==
    /\ pc[s] = "idle"
    /\ \E f \in StatusFilters, ok \in BOOLEAN :
          IF st_cache[f].present
          THEN /\ returned' = [fn |-> "load_reconcile_data", status_filter |-> f,
                               hit |-> TRUE, before_write |-> st_cache[f].before_write,
                               value |-> st_cache[f].value]
               /\ UNCHANGED st_cache
          ELSE LET v == IF ok THEN ListedFor(f) ELSE {} IN
               /\ st_cache' = [st_cache EXCEPT ![f] =
                                  [present |-> TRUE, before_write |-> FALSE, value |-> v]]
               /\ returned' = [fn |-> "load_reconcile_data", status_filter |-> f,
                               hit |-> FALSE, before_write |-> FALSE, value |-> v]
    /\ UNCHANGED <<pdfVars, uploadVars, inputs, bronze, storeVars, now, CURRENT_USER, sessVars, histVars, boundVars,
                   reconciliation_data>>

\* ttl=600: an entry older than ten minutes is dropped.
ExpireCache ==
    /\ \E f \in StatusFilters :
          /\ st_cache[f].present
          /\ st_cache' = [st_cache EXCEPT ![f] = NoEntry]
    /\ UNCHANGED <<pdfVars, uploadVars, inputs, bronze, storeVars, now, CURRENT_USER, sessVars, histVars, boundVars,
                   pageVars>>

\* Reviewer s1 commits document-AI values, with status updates that may
\* raise, while the pages of both sessions are drawn from the cache.
NextCache ==
    \/ SelectInvoice("s1")
    \/ AcceptDocai("s1")
    \/ DeleteGoldItems("s1")
    \/ InsertGoldItem("s1")
    \/ DeleteGoldTotals("s1")
    \/ InsertGoldTotal("s1")
    \/ UpdateReconcileItems("s1")
    \/ UpdateReconcileTotals("s1")
    \/ UpdateReconcileItemsRaises("s1")
    \/ UpdateReconcileTotalsRaises("s1")
    \/ EndRun("s1")
    \/ \E s \in Sessions : LoadReconcile(s)
    \/ ExpireCache

SpecCache == InitTwo /\ [][NextCache]_vars

MaxStamp == 2

\* The filters load_reconcile_data accepts.
AllFilters == StatusFilters \cup {"All"}

\* A row of a reconcile table with the time the comparator last touched it.
StampedReconcileRow(inv, status, ts) ==
    [invoice_id |-> inv, review_status |-> status, last_reconciled_timestamp |-> ts,
     reviewed_by |-> NULL, reviewed_timestamp |-> NullTime, notes |-> <<>>]

\* The reconcile tables of the listing check: at most one row per invoice.
StampedTables ==
    {{StampedReconcileRow(inv, f[inv][1], f[inv][2]) :
          inv \in {i \in Invoices : f[i][1] # "absent"}} :
        f \in [Invoices -> (StatusFilters \cup {"absent"}) \X (1..MaxStamp)]}

RECURSIVE Orderings(_)
Orderings(S) ==
    IF S = {} THEN {<<>>}
    ELSE UNION {{<<x>> \o q : q \in Orderings(S \ {x})} : x \in S}

\* SELECT DISTINCT invoice_id, review_status, last_reconciled_timestamp of one
\* reconcile table WHERE review_status = filter OR filter = 'All'.
DistinctMatching(table, status_filter) ==
    {[invoice_id |-> r.invoice_id, review_status |-> r.review_status,
      last_reconciled_timestamp |-> r.last_reconciled_timestamp] :
        r \in {x \in table : x.review_status = status_filter \/ status_filter = "All"}}

\* ORDER BY last_reconciled_timestamp DESC: rows with equal timestamps come
\* in any order.
OrderedByStampDesc(q) ==
    \A i, j \in DOMAIN q :
        i < j => q[i].last_reconciled_timestamp >= q[j].last_reconciled_timestamp

\* The reconcile_df values load_reconcile_data(status_filter) can return when
\* its reads succeed: the UNION of both tables' matching rows, ordered.
load_reconcile_data(ri, rt, status_filter) ==
    {q \in Orderings(DistinctMatching(ri, status_filter)
                       \cup DistinctMatching(rt, status_filter)) :
        OrderedByStampDesc(q)}

\* A call of load_reconcile_data: its reads return, or one raises and the
\* handler returns empty dataframes.
CallLoadReconcile ==
    /\ \E f \in AllFilters :
          \/ \E q \in load_reconcile_data(reconcile_items, reconcile_totals, f) :
                returned' = [fn |-> "reconcile_df", status_filter |-> f,
                             raised |-> FALSE, value |-> q]
          \/ returned' = [fn |-> "reconcile_df", status_filter |-> f,
                          raised |-> TRUE, value |-> <<>>]
    /\ UNCHANGED <<pdfVars, uploadVars, inputs, bronze, storeVars, now, CURRENT_USER, sessVars, histVars, boundVars,
                   reconciliation_data, cacheVars>>

InitReconcile ==
    /\ bronze = [transact_items  |-> <<>>, transact_totals |-> <<>>,
                 docai_items     |-> <<>>, docai_totals    |-> <<>>]
    /\ gold_items = EmptyBag
    /\ gold_totals = EmptyBag
    /\ reconcile_items \in StampedTables
    /\ reconcile_totals \in StampedTables
    /\ InitSession
    /\ CURRENT_USER = [s \in Sessions |-> Account(s)]

NextReconcile == CallLoadReconcile

SpecReconcile == InitReconcile /\ [][NextReconcile]_vars

\* C17: for every filter, load_reconcile_data returns the matching invoices
\* with every 'Pending Review' row before any row of another status, and
\* within the same status by last_reconciled_timestamp descending.
C17_PendingFirstThenNewest ==
    (returned.fn = "reconcile_df" /\ ~returned.raised) =>
        LET q == returned.value IN
        /\ {q[i] : i \in DOMAIN q}
              = DistinctMatching(reconcile_items, returned.status_filter)
                  \cup DistinctMatching(reconcile_totals, returned.status_filter)
        /\ \A i, j \in DOMAIN q :
              i < j =>
                  /\ q[j].review_status = "Pending Review"
                        => q[i].review_status = "Pending Review"
                  /\ q[i].review_status = q[j].review_status
                        => q[i].last_reconciled_timestamp >= q[j].last_reconciled_timestamp

\* --------------------------------------------------- the AI insight adapters
\* src/cortex_enhanced_app.py and src/enhanced_invoice_app.py.  A completion
\* response is a sequence of characters.

\* A response of the completion service has at most MaxLen characters.
MaxLen == 4

\* The characters of a response: the delimiter, a digit, a letter, a blank.
ResponseChars == {"|", "7", "a", " "}

Responses == SeqsUpTo(ResponseChars, MaxLen)

\* str.strip(): the blanks at both ends are dropped.
RECURSIVE Strip(_)
Strip(t) ==
    IF t # <<>> /\ Head(t) = " " THEN Strip(Tail(t))
    ELSE IF t # <<>> /\ t[Len(t)] = " " THEN Strip(SubSeq(t, 1, Len(t) - 1))
    ELSE t

\* The position of the first "|" in t, 0 if there is none.
RECURSIVE FindBar(_, _)
FindBar(t, i) ==
    IF i > Len(t) THEN 0 ELSE IF t[i] = "|" THEN i ELSE FindBar(t, i + 1)

\* str.split('|', maxsplit)
RECURSIVE PySplit(_, _)
PySplit(t, maxsplit) ==
    LET i == FindBar(t, 1) IN
    IF maxsplit = 0 \/ i = 0 THEN <<t>>
    ELSE <<SubSeq(t, 1, i - 1)>> \o PySplit(SubSeq(t, i + 1, Len(t)), maxsplit - 1)

\* float(t) returns for a non-empty run of digits (blanks around it are
\* ignored), and raises ValueError for any other text of ResponseChars.
IsFloat(t) == Strip(t) # <<>> /\ \A i \in DOMAIN Strip(t) : Strip(t)[i] = "7"

RECURSIVE DigitsValue(_)
DigitsValue(t) == IF t = <<>> THEN 0 ELSE 10 * DigitsValue(SubSeq(t, 1, Len(t) - 1)) + 7

PyFloat(t) == [num |-> DigitsValue(Strip(t)), den |-> 1]

\* The Z_SCORE column of the statistics row, in tenths: a number or NaN.
ZScoreCells == {NaN, Num(0), Num(15), Num(25), Num(0 - 35)}

\* abs(row['Z_SCORE']) if pd.notna(row['Z_SCORE']) else 0
ZScoreOf(cell) ==
    IF cell.kind = "NaN" THEN 0 ELSE IF cell.v < 0 THEN 0 - cell.v ELSE cell.v

\* "Fallback statistical assessment": the level and score come from z_score
\* (in tenths: 30 is three standard deviations).
StatisticalFallback(z_score, ai_response) ==
    [risk_level |-> IF z_score > 30 THEN <<"H", "I", "G", "H">>
                    ELSE IF z_score > 20 THEN <<"M", "E", "D", "I", "U", "M">>
                    ELSE <<"L", "O", "W">>,
     risk_score |-> IF z_score >= 30 THEN [num |-> 1, den |-> 1]
                    ELSE [num |-> z_score, den |-> 30],
     analysis |-> ai_response, z_score |-> z_score]

\* ai_fraud_risk_analysis from the completion response on: the '|' parse
\* inside its own try, then the fallback.
ParseFraudResponse(z_score, ai_response) ==
    LET parts == PySplit(ai_response, 2) IN
    IF Len(parts) >= 3 /\ IsFloat(parts[2])
    THEN [risk_level |-> Strip(parts[1]), risk_score |-> PyFloat(parts[2]),
          analysis |-> Strip(parts[3]), z_score |-> z_score]
    ELSE StatisticalFallback(z_score, ai_response)

\* ai_fraud_risk_analysis(session, invoice_id): result is what its queries
\* do ("raised", "empty" statistics, or "row"), zcell the Z_SCORE of the row
\* and ai_response the completion text.
ai_fraud_risk_analysis(result, zcell, ai_response) ==
    IF result = "raised"
    THEN [risk_level |-> <<"E", "r", "r", "o", "r">>, risk_score |-> [num |-> 0, den |-> 1],
          analysis |-> <<"f", "a", "i", "l", "e", "d">>]
    ELSE IF result = "empty"
    THEN [risk_level |-> <<"U", "n", "k", "n", "o", "w", "n">>,
          risk_score |-> [num |-> 0, den |-> 1], analysis |-> <<"N", "o">>]
    ELSE ParseFraudResponse(ZScoreOf(zcell), ai_response)

\* What the queries of ai_fraud_risk_analysis can answer: the statistics
\* query raises, gives no row, or gives a row with a Z_SCORE, and then the
\* completion answers with a text.
FraudAnswers ==
    [result : {"raised", "empty", "row"}, zcell : ZScoreCells, ai_response : Responses]

\* A call of ai_fraud_risk_analysis; the function has a handler around its
\* whole body, so every call returns.
CallFraudAnalysis ==
    /\ inputs.result # "none"
    /\ returned' = [fn |-> "ai_fraud_risk_analysis", result |-> inputs.result,
                    zcell |-> inputs.zcell, ai_response |-> inputs.ai_response,
                    value |-> ai_fraud_risk_analysis(inputs.result, inputs.zcell,
                                                     inputs.ai_response)]
    /\ UNCHANGED <<pdfVars, uploadVars, inputs, bronze, storeVars, now, CURRENT_USER, sessVars, histVars, boundVars,
                   reconciliation_data, cacheVars>>

InitFraud ==
    /\ bronze = [transact_items  |-> TransactItemsData,
                 transact_totals |-> TransactTotalsData,
                 docai_items     |-> DocaiItemsData,
                 docai_totals    |-> DocaiTotalsData]
    /\ gold_items = EmptyBag
    /\ gold_totals = EmptyBag
    /\ reconcile_items = {}
    /\ reconcile_totals = {}
    /\ InitReviewers
    /\ CURRENT_USER = [s \in Sessions |-> Account(s)]
    /\ inputs \in FraudAnswers
    /\ stage = {}

NextFraud == CallFraudAnalysis

SpecFraud == InitFraud /\ [][NextFraud]_vars

\* The response has three '|'-delimited parts and a numeric second part.
Delimited(ai_response) ==
    \E i, j \in DOMAIN ai_response :
        /\ i < j
        /\ ai_response[i] = "|"
        /\ ai_response[j] = "|"
        /\ \A k \in 1..(j - 1) : ai_response[k] = "|" => k = i
        /\ \E a, b \in (i + 1)..(j - 1) :
              /\ a <= b
              /\ \A k \in (i + 1)..(j - 1) :
                    ai_response[k] = IF k \in a..b THEN "7" ELSE " "

\* C18: for a response that is not '|'-delimited into three parts with a
\* numeric score, ai_fraud_risk_analysis returns risk_level 'LOW', risk_score
\* 0 and the raw response as analysis, whatever the statistics of the invoice.
C18_FixedFallbackOnMalformedResponse ==
    (/\ returned.fn = "ai_fraud_risk_analysis"
     /\ returned.result = "row"
     /\ ~Delimited(returned.ai_response)) =>
        /\ returned.value.risk_level = <<"L", "O", "W">>
        /\ returned.value.risk_score.num = 0
        /\ returned.value.analysis = returned.ai_response

\* ------------------------------------------------ the categorization adapters
\* ai_invoice_categorization (src/cortex_enhanced_app.py) and
\* categorize_invoice_with_ai (src/enhanced_invoice_app.py).  Here a response
\* is a sequence of JSON tokens: the punctuation, the number "7", "null", and
\* string literals, each named by its content.

\* An object or a list of a response has at most MaxKeys members.
MaxKeys == 3

\* The contents of the string literals of a response.
StringTokens == {"category", "confidence", "reasoning", "x",
                 "category confidence reasoning"}

ScalarTokens == {"7", "null"} \cup StringTokens

\* The text of the JSON object with the keys ks, each with the value 7
\* (type "dict"), or of the JSON list of the strings ks (type "list").
JsonText(type, ks) ==
    LET n == Len(ks) IN
    IF type = "dict"
    THEN IF n = 0 THEN <<"{", "}">>
         ELSE [i \in 1..(4 * n + 1) |->
                 IF i = 1 THEN "{"
                 ELSE IF i = 4 * n + 1 THEN "}"
                 ELSE IF i % 4 = 2 THEN ks[(i + 2) \div 4]
                 ELSE IF i % 4 = 3 THEN ":"
                 ELSE IF i % 4 = 0 THEN "7"
                 ELSE ","]
    ELSE IF n = 0 THEN <<"[", "]">>
         ELSE [i \in 1..(2 * n + 1) |->
                 IF i = 1 THEN "["
                 ELSE IF i = 2 * n + 1 THEN "]"
                 ELSE IF i % 2 = 0 THEN ks[i \div 2]
                 ELSE ","]

\* The responses of the completion service: JSON objects, JSON lists, JSON
\* scalars, and the texts left when a JSON text is cut short.
CategorizationResponses ==
    LET whole == {JsonText(type, ks) : type \in {"dict", "list"},
                                       ks \in SeqsUpTo(StringTokens, MaxKeys)}
                 \cup {<<tok>> : tok \in ScalarTokens}
    IN  whole \cup {SubSeq(t, 1, Len(t) - 1) : t \in whole}

\* A Python value: a dict (its keys and values in dict), a list (its elements
\* in items), a str or a number (in text), or None.
PyValue(type, dict, items, text) ==
    [type |-> type, dict |-> dict, items |-> items, text |-> text]

\* json.loads(t) for a text of scalars, a list of scalars or an object of
\* scalars: ok is FALSE where it raises JSONDecodeError.  A later member of
\* an object replaces an earlier one with the same key.
JsonLoads(t) ==
    LET L == Len(t)
        n == L \div 4
        m == L \div 2
        Raises == [ok |-> FALSE, value |-> PyValue("None", EmptyDict, <<>>, "")]
        Value(v) == [ok |-> TRUE, value |-> v]
    IN
    IF L = 0 THEN Raises
    ELSE IF L = 1
    THEN IF t[1] = "7" THEN Value(PyValue("num", EmptyDict, <<>>, "7"))
         ELSE IF t[1] = "null" THEN Value(PyValue("None", EmptyDict, <<>>, ""))
         ELSE IF t[1] \in StringTokens THEN Value(PyValue("str", EmptyDict, <<>>, t[1]))
         ELSE Raises
    ELSE IF t = <<"{", "}">> THEN Value(PyValue("dict", EmptyDict, <<>>, ""))
    ELSE IF t = <<"[", "]">> THEN Value(PyValue("list", EmptyDict, <<>>, ""))
    ELSE IF /\ t[1] = "{" /\ L = 4 * n + 1 /\ t[L] = "}"
            /\ \A j \in 1..n : /\ t[4 * j - 2] \in StringTokens
                               /\ t[4 * j - 1] = ":"
                               /\ t[4 * j] \in ScalarTokens
                               /\ (j < n => t[4 * j + 1] = ",")
    THEN Value(PyValue("dict",
                       [k \in {t[4 * j - 2] : j \in 1..n} |->
                          LET last == CHOOSE j \in 1..n :
                                         /\ t[4 * j - 2] = k
                                         /\ \A i \in (j + 1)..n : t[4 * i - 2] # k
                          IN  t[4 * last]],
                       <<>>, ""))
    ELSE IF /\ t[1] = "[" /\ L = 2 * m + 1 /\ t[L] = "]"
            /\ \A j \in 1..m : /\ t[2 * j] \in ScalarTokens
                               /\ (j < m => t[2 * j + 1] = ",")
    THEN Value(PyValue("list", EmptyDict, [j \in 1..m |-> t[2 * j]], ""))
    ELSE Raises

\* Python's "key in result": membership of the keys of a dict, of the
\* elements of a list, a substring test on a str; "raises" (TypeError) on a
\* number and on None.
KeyIn(key, result) ==
    IF result.type = "dict" THEN IF key \in DOMAIN result.dict THEN "yes" ELSE "no"
    ELSE IF result.type = "list"
    THEN IF \E i \in DOMAIN result.items : result.items[i] = key THEN "yes" ELSE "no"
    ELSE IF result.type = "str"
    THEN IF result.text \in {key, "category confidence reasoning"} THEN "yes" ELSE "no"
    ELSE "raises"

\* The dict literals the adapters return.
CategoryDict(category, confidence, reasoning) ==
    PyValue("dict", [category |-> category, confidence |-> confidence,
                     reasoning |-> reasoning], <<>>, "")

\* ai_invoice_categorization(session, invoice_id): data is what the product
\* query does ("raised", "empty" or "row"), products the PRODUCTS of its row,
\* completion what the completion call does ("raised", "no_rows" or "text")
\* and response its text.
ai_invoice_categorization(data, products, completion, response) ==
    LET ai_response == IF completion = "no_rows" THEN <<"{", "}">> ELSE response
        loaded == JsonLoads(ai_response)
        result == loaded.value
    IN
    IF data = "raised" \/ (data = "row" /\ completion = "raised")
    THEN CategoryDict("Error", "0", "Categorization failed")
    ELSE IF data = "empty"
    THEN CategoryDict("Unknown", "0", "No product data found")
    ELSE IF /\ loaded.ok
            /\ \A key \in {"category", "confidence", "reasoning"} : KeyIn(key, result) = "yes"
    THEN result
    ELSE IF products = "bread"
    THEN CategoryDict("Food & Beverages", "0.8", "Contains food items")
    ELSE CategoryDict("Other", "0.5", "Could not determine category from AI")

\* categorize_invoice_with_ai(session, invoice_id), with the same inputs.
categorize_invoice_with_ai(data, products, completion, response) ==
    IF data = "raised" \/ (data = "row" /\ completion = "raised")
    THEN CategoryDict("Error", "0", "Error")
    ELSE IF data = "empty"
    THEN CategoryDict("Unknown", "0", "No data available")
    ELSE IF completion = "no_rows"
    THEN CategoryDict("Unknown", "0", "No AI response")
    ELSE IF JsonLoads(response).ok
    THEN JsonLoads(response).value
    ELSE CategoryDict("Other", "0.5", "Could not parse AI response")

\* What the queries of a categorization adapter can answer.
CategorizationAnswers ==
    [result : {"raised", "empty", "row"}, products : {"bread", "paper"},
     completion : {"raised", "no_rows", "text"}, response : CategorizationResponses]

\* A call of one of the two adapters; both have a handler around the whole
\* body, so every call returns.
CallCategorization(fn) ==
    /\ inputs.result # "none"
    /\ returned' = [fn |-> fn, result |-> inputs.result, products |-> inputs.products,
                    completion |-> inputs.completion, response |-> inputs.response,
                    value |-> IF fn = "ai_invoice_categorization"
                              THEN ai_invoice_categorization(inputs.result, inputs.products,
                                                             inputs.completion, inputs.response)
                              ELSE categorize_invoice_with_ai(inputs.result, inputs.products,
                                                              inputs.completion, inputs.response)]
    /\ UNCHANGED <<pdfVars, uploadVars, inputs, bronze, storeVars, now, CURRENT_USER, sessVars, histVars, boundVars,
                   reconciliation_data, cacheVars>>

InitCategorize ==
    /\ bronze = [transact_items  |-> TransactItemsData,
                 transact_totals |-> TransactTotalsData,
                 docai_items     |-> DocaiItemsData,
                 docai_totals    |-> DocaiTotalsData]
    /\ gold_items = EmptyBag
    /\ gold_totals = EmptyBag
    /\ reconcile_items = {}
    /\ reconcile_totals = {}
    /\ InitReviewers
    /\ CURRENT_USER = [s \in Sessions |-> Account(s)]
    /\ inputs \in CategorizationAnswers
    /\ stage = {}

NextCategorize ==
    \/ CallCategorization("ai_invoice_categorization")
    \/ CallCategorization("categorize_invoice_with_ai")

SpecCategorize == InitCategorize /\ [][NextCategorize]_vars

\* C19: whatever the completion response (not JSON, JSON that is not an
\* object, a JSON object lacking keys) and when the completion call failed,
\* both categorization adapters return a record that has the keys category,
\* confidence and reasoning.
C19_CategorizationHasItsKeys ==
    returned.fn \in {"ai_invoice_categorization", "categorize_invoice_with_ai"} =>
        /\ returned.value.type = "dict"
        /\ {"category", "confidence", "reasoning"} \subseteq DOMAIN returned.value.dict

\* C20: every accept, from any session state (a fresh session included) and
\* under any store failure, ends with an outcome reported in the UI (success,
\* warning or error), never with an unhandled exception.
C20_EveryAcceptIsReported ==
    \A s \in Sessions :
        pc[s] = "reported" =>
            outcome[s] \in {"success", "warn_items", "warn_totals", "error"}

\* C21: the item and total rows an accept writes under the id of invoice X
\* are the rows the chosen source holds for X as loaded for X; rows kept in
\* session state from an invoice selected before are never written under X.
C21_CommitWritesOnlyOwnRows ==
    \A s \in Sessions :
        pc[s] \in CommitPcs =>
            LET inv    == AcceptedInvoice(s)
                items  == SourceItems(s, button[s], inv)
                totals == SourceTotals(s, button[s], inv)
            IN  /\ gold_items_df[s] =
                      SetInvoiceId(IF button[s] = "docai" THEN ProjectItems(items)
                                   ELSE items, inv)
                /\ gold_totals_df[s] =
                      SetInvoiceId(IF button[s] = "docai" THEN ProjectTotals(totals)
                                   ELSE totals, inv)

\* ------------------------------------------- the accept of the AI dashboard
\* src/cortex_enhanced_app.py, main: the two accept buttons of its review
\* page call st.success and nothing else.
AcceptInAiDashboard(s) ==
    /\ pc[s] = "idle"
    /\ selected_invoice_id[s] # NoInvoice
    /\ accepts < MaxAccepts
    /\ accepts' = accepts + 1
    /\ \E b \in {"docai", "manual"} : button' = [button EXCEPT ![s] = b]
    /\ pre' = [pre EXCEPT ![s] = View(selected_invoice_id[s])]
    /\ alone' = [alone EXCEPT ![s] = TRUE]
    /\ issued' = [issued EXCEPT ![s] = <<>>]
    /\ outcome' = [outcome EXCEPT ![s] = "success"]
    /\ pc' = [pc EXCEPT ![s] = "reported"]
    /\ UNCHANGED <<cacheVars, pageVars, pdfVars, uploadVars, inputs, bronze, storeVars, now, CURRENT_USER,
                   selected_invoice_id, session_state, gold_items_df, gold_totals_df,
                   current_ts, todo, failures>>

\* The reviewer of Spec, with both dashboards at hand.
NextDashboards == Next \/ AcceptInAiDashboard("s1")

SpecDashboards == Init /\ [][NextDashboards]_vars

\* C22: in every dashboard, an accept reports success only after the gold
\* rows of the selected invoice were written and its review status was set
\* to 'Reviewed'.
C22_SuccessOnlyAfterGoldWrite ==
    \A s \in Sessions :
        (pc[s] = "reported" /\ outcome[s] = "success") =>
            /\ \A stmt \in {"INSERT_ITEM", "INSERT_TOTAL", "UPDATE_ITEMS", "UPDATE_TOTALS"} :
                  \E i \in DOMAIN issued[s] : issued[s][i].stmt = stmt /\ issued[s][i].ok
            /\ \A r \in View(AcceptedInvoice(s)).ri \cup View(AcceptedInvoice(s)).rt :
                  r.review_status = "Reviewed"

\* ------------------------------------- the metrics of the other dashboards

\* count / total * 100 on Python numbers: ZeroDivisionError when total is 0.
Percent(count, total) ==
    IF total = 0 THEN [kind |-> "ZeroDivisionError", num |-> 0, den |-> 1]
    ELSE [kind |-> "num", num |-> 100 * count, den |-> total]

\* src/enhanced_invoice_app.py, main: the review page draws the four metrics
\* of the dict get_invoice_reconciliation_metrics returned; the delta of the
\* second is computed in place, outside any handler.
RenderReviewMetrics ==
    /\ reconciliation_data.kind = "metrics"
    /\ returned' = [fn |-> "main", total |-> reconciliation_data.total_invoice_count,
                    delta |-> Percent(reconciliation_data.count_auto_reconciled,
                                      reconciliation_data.total_invoice_count)]
    /\ UNCHANGED <<pdfVars, uploadVars, inputs, bronze, storeVars, now, CURRENT_USER, sessVars, histVars, boundVars,
                   reconciliation_data, cacheVars>>

\* src/cortex_enhanced_app.py, render_ai_dashboard: its own query over
\* TRANSACT_TOTALS left-joined with RECONCILE_RESULTS_TOTALS, and
\* "(auto / total * 100) if total > 0 else 0".
RenderAiDashboard ==
    LET ids  == {bronze.transact_totals[i].invoice_id : i \in DOMAIN bronze.transact_totals}
        auto == {inv \in ids : \E r \in reconcile_totals :
                                  r.invoice_id = inv /\ r.review_status = "Auto-reconciled"}
        TOTAL_INVOICES == Cardinality(ids)
    IN
    /\ returned' = [fn |-> "render_ai_dashboard", total |-> TOTAL_INVOICES,
                    delta |-> IF TOTAL_INVOICES > 0
                              THEN Percent(Cardinality(auto), TOTAL_INVOICES)
                              ELSE ZeroRatio]
    /\ UNCHANGED <<pdfVars, uploadVars, inputs, bronze, storeVars, now, CURRENT_USER, sessVars, histVars, boundVars,
                   reconciliation_data, cacheVars>>

NextPages == GetMetrics \/ GetMetricsFails \/ RenderReviewMetrics \/ RenderAiDashboard

SpecPages == InitMetrics /\ [][NextPages]_vars

\* C23: a page that displays metrics with total_invoice_count = 0 shows the
\* auto-reconciled percentage as 0 and does not divide by zero.
C23_NoDivisionByZeroInvoices ==
    (returned.fn \in {"main", "render_ai_dashboard"} /\ returned.total = 0) =>
        (returned.delta.kind = "num" /\ returned.delta.num = 0)

\* ------------------------------------------------------ the validation form
\* src/sis_docai_validation_app.py; the form and the procedure call of
\* src/sis_docai_validation_AISQL.py are the same text.

\* The start of a check of one call: the store of Init without reconcile
\* rows, the sessions at rest, and what the call is given drawn from given.
InitGiven(given) ==
    /\ bronze = [transact_items  |-> TransactItemsData,
                 transact_totals |-> TransactTotalsData,
                 docai_items     |-> DocaiItemsData,
                 docai_totals    |-> DocaiTotalsData]
    /\ gold_items = EmptyBag
    /\ gold_totals = EmptyBag
    /\ reconcile_items = {}
    /\ reconcile_totals = {}
    /\ InitReviewers
    /\ CURRENT_USER = [s \in Sessions |-> Account(s)]
    /\ inputs \in given
    /\ stage = {}

\* A text column of the selected row: None or a text.
TextCells(texts) == {[kind |-> "None", v |-> <<>>]} \cup {[kind |-> "str", v |-> t] : t \in texts}

\* A form submission: the sidebar name, the selected row of the validation
\* view, the values of the form fields, the button pressed, and whether the
\* procedure raises.
Submissions ==
    [validator_name   : {<<>>, <<"a">>, <<"O", "'", "B">>},
     button           : {"validate_btn", "reject_btn", "save_draft_btn"},
     raises           : BOOLEAN,
     CUSTOMER_NO      : TextCells({<<"a">>}),
     INVOICE_DATE     : TextCells({<<"a">>}),
     TOTAL_AMOUNT     : {NoneCell, Num(0), Num(5)},
     COST_CENTER      : {[kind |-> "str", v |-> <<"a">>]},
     new_customer_no  : {<<>>, <<"a">>, <<"b">>},
     new_invoice_date : {<<"a">>, <<"b">>},
     new_total_amount : {0, 5, 7},
     new_cost_center  : {<<>>, <<"a">>},
     validation_notes : {<<>>, <<"n">>}]

\* invoice[column] or ''
OrEmpty(cell) == IF cell.kind = "None" THEN <<>> ELSE cell.v

\* float(invoice['TOTAL_AMOUNT']) if invoice['TOTAL_AMOUNT'] else 0.0
AmountOrZero(cell) == IF cell.kind = "None" THEN 0 ELSE cell.v

\* The dict new_values: an entry is set where the field differs from the
\* value the form showed.
NewValues(in) ==
    [customer_no  |-> [set |-> in.new_customer_no # OrEmpty(in.CUSTOMER_NO),
                       v |-> in.new_customer_no],
     invoice_date |-> [set |-> in.new_invoice_date # OrEmpty(in.INVOICE_DATE),
                       v |-> in.new_invoice_date],
     total_amount |-> [set |-> in.new_total_amount # AmountOrZero(in.TOTAL_AMOUNT),
                       v |-> in.new_total_amount],
     cost_center  |-> [set |-> in.new_cost_center # OrEmpty(in.COST_CENTER),
                       v |-> in.new_cost_center]]

SqlNull == [null |-> TRUE, v |-> <<>>]

\* f"'{new_values.get(k)}'" if new_values.get(k) else 'NULL': a missing
\* entry and an empty text are both falsy.
TextParam(entry) ==
    IF entry.set /\ entry.v # <<>> THEN [null |-> FALSE, v |-> entry.v] ELSE SqlNull

\* str(new_values.get(k)) if new_values.get(k) is not None else 'NULL'
AmountParam(entry) == IF entry.set THEN [null |-> FALSE, v |-> entry.v] ELSE SqlNull

\* A text placed between quotes as it is: a quote in it ends the literal and
\* the rest of the statement does not compile.
Compiles(text) == \A i \in DOMAIN text : text[i] # "'"

\* validate_invoice_procedure: calls holds the CALL the store executed (none
\* when the statement did not compile), result whether a truthy value came
\* back rather than None.
validate_invoice_procedure(validated_by, new_values, validation_notes, validation_status, raises) ==
    LET customer_param    == TextParam(new_values.customer_no)
        date_param        == TextParam(new_values.invoice_date)
        cost_center_param == TextParam(new_values.cost_center)
        args == [invoice_no |-> "INV1", validated_by |-> validated_by,
                 customer_no |-> customer_param, invoice_date |-> date_param,
                 total_amount |-> AmountParam(new_values.total_amount),
                 cost_center |-> cost_center_param,
                 notes |-> IF validation_notes # <<>>
                           THEN [null |-> FALSE, v |-> SqlLiteral(SqlEscape(validation_notes))]
                           ELSE SqlNull,
                 status |-> validation_status]
    IN  IF /\ Compiles(validated_by) /\ Compiles(customer_param.v)
           /\ Compiles(date_param.v) /\ Compiles(cost_center_param.v)
        THEN [calls |-> <<args>>, result |-> ~raises]
        ELSE [calls |-> <<>>, result |-> FALSE]

\* A variant of the name test that lets every name pass.
AnyName(validator_name) == TRUE

\* st.session_state.validator_name is truthy.
NameGiven(validator_name) == validator_name # <<>>

\* The "Process form submission" block for invoice INV1: the calls made,
\* the message shown, and whether the cache was cleared and current_invoice
\* set to None.
validation_form(in) ==
    IF ~NameGiven(in.validator_name)
    THEN [calls |-> <<>>, message |-> "error: enter your name", cleared |-> FALSE,
          current_invoice |-> "INV1"]
    ELSE LET validation_status == IF in.button = "validate_btn" THEN "VALIDATED"
                                  ELSE IF in.button = "reject_btn" THEN "REJECTED"
                                  ELSE "PENDING"
             r == validate_invoice_procedure(in.validator_name, NewValues(in),
                                             in.validation_notes, validation_status,
                                             in.raises)
         IN  [calls |-> r.calls,
              message |-> IF r.result THEN validation_status ELSE "error validating invoice",
              cleared |-> r.result,
              current_invoice |-> IF r.result THEN NoInvoice ELSE "INV1"]

SubmitForm ==
    /\ returned' = [fn |-> "validation_form", given |-> inputs, after |-> validation_form(inputs)]
    /\ UNCHANGED <<pdfVars, uploadVars, inputs, bronze, storeVars, now, CURRENT_USER, sessVars, histVars, boundVars,
                   reconciliation_data, cacheVars>>

NextValidation == SubmitForm

SpecValidation == InitGiven(Submissions) /\ [][NextValidation]_vars

\* C24: a submission with a non-empty validator name issues exactly one
\* SP_VALIDATE_INVOICE call for the selected invoice, with the status of the
\* button pressed and the validator name as validated_by.
C24_OneCallWithButtonStatus ==
    (returned.fn = "validation_form" /\ returned.given.validator_name # <<>>) =>
        LET calls == returned.after.calls IN
        /\ Len(calls) = 1
        /\ calls[1].invoice_no = "INV1"
        /\ calls[1].validated_by = returned.given.validator_name
        /\ calls[1].status = CASE returned.given.button = "validate_btn" -> "VALIDATED"
                               [] returned.given.button = "reject_btn" -> "REJECTED"
                               [] OTHER -> "PENDING"

\* C25: a submission made while the validator name is empty issues no
\* procedure call and changes no state: the cache is not cleared, the current
\* invoice is kept, and only the error message is shown.
C25_NoNameNoCall ==
    (returned.fn = "validation_form" /\ returned.given.validator_name = <<>>) =>
        /\ returned.after.calls = <<>>
        /\ ~returned.after.cleared
        /\ returned.after.current_invoice = "INV1"
        /\ returned.after.message = "error: enter your name"

\* C25 witness: 'Validate & Approve' was pressed with an empty name, a
\* changed amount and a procedure that would have returned.
C25_Witness ==
    /\ returned.fn = "validation_form"
    /\ returned.given.validator_name = <<>>
    /\ returned.given.button = "validate_btn"
    /\ ~returned.given.raises
    /\ returned.given.new_total_amount # AmountOrZero(returned.given.TOTAL_AMOUNT)

\* C26: every field the reviewer changed reaches SP_VALIDATE_INVOICE as a
\* non-NULL argument carrying the new value and every unchanged field as
\* NULL, also when a text is changed to the empty text or the amount to 0.
C26_ChangedFieldsReachTheCall ==
    (returned.fn = "validation_form" /\ returned.after.calls # <<>>) =>
        LET in   == returned.given
            call == returned.after.calls[1]
            Carries(param, changed, v) ==
                IF changed THEN ~param.null /\ param.v = v ELSE param.null
        IN  /\ Carries(call.customer_no, in.new_customer_no # OrEmpty(in.CUSTOMER_NO),
                       in.new_customer_no)
            /\ Carries(call.invoice_date, in.new_invoice_date # OrEmpty(in.INVOICE_DATE),
                       in.new_invoice_date)
            /\ Carries(call.total_amount, in.new_total_amount # AmountOrZero(in.TOTAL_AMOUNT),
                       in.new_total_amount)
            /\ Carries(call.cost_center, in.new_cost_center # OrEmpty(in.COST_CENTER),
                       in.new_cost_center)

\* ------------------------------------------------------------ the PDF viewer
\* src/sis_docai_validation_app.py: load_pdf_from_stage, the two page buttons
\* and display_pdf_page.

\* A PDF of the stage has at most MaxPages pages.
MaxPages == 3

PdfFiles == {"a.pdf", "b.pdf"}

\* A variant of the last index that is one too large.
PageCount(doc) == doc.pages

\* len(st.session_state['pdf_doc']) - 1
LastPage(doc) == doc.pages - 1

\* display_pdf_page: an index outside the document is set to 0.
DisplayedPage(doc, page) ==
    IF ~doc.isNone /\ ~(0 <= page /\ page < doc.pages) THEN 0 ELSE page

\* The page is drawn for an invoice with FILE_NAME file_name: the viewer
\* calls load_pdf_from_stage and, when it returned True and a document is
\* loaded, display_pdf_page.  The read of the stage returns or raises.
LoadPdf ==
    /\ \E file_name \in PdfFiles \cup {""} :
          \/ /\ file_name # ""
             /\ pdf_url # file_name
             /\ \/ /\ pdf_doc' = [isNone |-> FALSE, pages |-> inputs.pages[file_name]]
                   /\ pdf_url' = file_name
                   /\ pdf_page' = 0
                   /\ returned' = [fn |-> "load_pdf_from_stage", file_name |-> file_name,
                                   before |-> pdf_page, loaded |-> TRUE, value |-> TRUE]
                \/ /\ pdf_doc' = NoDoc
                   /\ pdf_url' = "None"
                   /\ pdf_page' = pdf_page
                   /\ returned' = [fn |-> "load_pdf_from_stage", file_name |-> file_name,
                                   before |-> pdf_page, loaded |-> FALSE, value |-> FALSE]
          \/ /\ file_name = "" \/ pdf_url = file_name
             /\ pdf_page' = IF file_name = "" THEN pdf_page
                            ELSE DisplayedPage(pdf_doc, pdf_page)
             /\ returned' = [fn |-> "load_pdf_from_stage", file_name |-> file_name,
                             before |-> pdf_page, loaded |-> FALSE,
                             value |-> (file_name # "")]
             /\ UNCHANGED <<pdf_doc, pdf_url>>
    /\ UNCHANGED <<uploadVars, inputs, bronze, storeVars, now, CURRENT_USER, sessVars, histVars,
                   boundVars, reconciliation_data, cacheVars>>

previous_pdf_page ==
    /\ pdf_page' = IF pdf_page > 0 THEN pdf_page - 1 ELSE pdf_page
    /\ returned' = [fn |-> "previous_pdf_page", before |-> pdf_page]
    /\ UNCHANGED <<pdf_doc, pdf_url, uploadVars, inputs, bronze, storeVars, now, CURRENT_USER,
                   sessVars, histVars, boundVars, reconciliation_data, cacheVars>>

next_pdf_page ==
    /\ pdf_page' = IF ~pdf_doc.isNone /\ pdf_page < LastPage(pdf_doc)
                   THEN pdf_page + 1 ELSE pdf_page
    /\ returned' = [fn |-> "next_pdf_page", before |-> pdf_page]
    /\ UNCHANGED <<pdf_doc, pdf_url, uploadVars, inputs, bronze, storeVars, now, CURRENT_USER,
                   sessVars, histVars, boundVars, reconciliation_data, cacheVars>>

NextPdf == LoadPdf \/ previous_pdf_page \/ next_pdf_page

\* Any stage: each PDF has between 1 and MaxPages pages.
SpecPdf == InitGiven([pages : [PdfFiles -> 1..MaxPages]]) /\ [][NextPdf]_vars

DatasetPdfs == {"a.pdf", "b.pdf"}

\* src/cortex_enhanced_app.py, sidebar: a file is put into the stage by the
\* uploader of the dashboard.
SidebarUpload ==
    /\ \E file_name \in DatasetPdfs \cup {"x.pdf"} :
          /\ file_name \notin stage
          /\ stage' = stage \cup {file_name}
    /\ UNCHANGED <<upload_status, upload_results, stage_cache, pdfVars, inputs, bronze, storeVars,
                   now, CURRENT_USER, sessVars, histVars, boundVars, pageVars, cacheVars>>

\* [f for f in pdf_files if f.name not in uploaded_files], where the LIST of
\* the stage returned, or raised and left the empty set.
FilesToUpload(list_ok) == inputs.local \ (IF list_ok THEN stage ELSE {})

\* bulk_upload_dataset(): one run of the script.  The session may be missing,
\* the LIST may raise, and the put of each file of fails raises.
bulk_upload_dataset ==
    \E session_ok, list_ok \in BOOLEAN, fails \in SUBSET inputs.local :
        LET attempted == IF session_ok /\ inputs.local # {}
                         THEN FilesToUpload(list_ok) ELSE {}
            failed    == attempted \cap fails
        IN  /\ fails \subseteq FilesToUpload(list_ok)
            /\ stage' = stage \cup (attempted \ failed)
            /\ \E q \in Orderings(attempted) :
                  returned' = [fn |-> "bulk_upload_dataset", missing |-> inputs.local \ stage,
                               attempted |-> q, failed |-> failed,
                               value |-> (session_ok /\ inputs.local # {} /\ failed = {}),
                               after_clean_run |-> (returned.fn = "bulk_upload_dataset"
                                                       /\ returned.value)]
            /\ UNCHANGED <<upload_status, upload_results, stage_cache, pdfVars, inputs, bronze,
                           storeVars, now, CURRENT_USER, sessVars, histVars, boundVars,
                           reconciliation_data, cacheVars>>

\* get_stage_files() under st.cache_data: the cached count, or the count of
\* a LIST made now, 0 when it raises; the value returned is cached.
get_stage_files(list_ok) ==
    IF stage_cache.present THEN stage_cache
    ELSE [present |-> TRUE, stage_count |-> IF list_ok THEN Cardinality(stage) ELSE 0]

\* local_count - stage_count if local_count > stage_count else 0
files_to_upload(stage_count) ==
    IF Cardinality(inputs.local) > stage_count
    THEN Cardinality(inputs.local) - stage_count ELSE 0

\* A run of the page outside an upload: with no local PDF it stops in the
\* sidebar; else it reads the stage count and, per button is "none", "start"
\* (enabled while files_to_upload is not 0), "refresh" or "clear", handles
\* the button pressed.
UploadPage(button_pressed) ==
    /\ inputs.local # {}
    /\ upload_status # "uploading"
    /\ \E list_ok \in BOOLEAN :
          LET got == get_stage_files(list_ok) IN
          /\ button_pressed = "start" => files_to_upload(got.stage_count) # 0
          /\ stage_cache' = IF button_pressed \in {"refresh", "clear"} THEN NoStageList ELSE got
          /\ upload_status' = IF button_pressed = "start" THEN "uploading" ELSE upload_status
          /\ upload_results' = IF button_pressed = "clear" THEN NoResults ELSE upload_results
    /\ returned' = [fn |-> "upload_page", button |-> button_pressed]
    /\ UNCHANGED <<stage, pdfVars, inputs, bronze, storeVars, now, CURRENT_USER, sessVars,
                   histVars, boundVars, reconciliation_data, cacheVars>>

\* The run with upload_status = "uploading": the "Bulk upload logic" block.
UploadRun ==
    /\ upload_status = "uploading"
    /\ \E list_ok \in BOOLEAN, fails \in SUBSET inputs.local :
          LET attempted == FilesToUpload(list_ok)
              failed    == attempted \cap fails
              success_count == Cardinality(attempted \ failed)
          IN  /\ fails \subseteq attempted
              /\ stage' = stage \cup (attempted \ failed)
              /\ upload_results' =
                    IF attempted = {} THEN upload_results
                    ELSE [isNone |-> FALSE, success |-> success_count,
                          failed |-> Cardinality(failed),
                          total_stage |-> success_count
                                          + (IF list_ok THEN Cardinality(stage) ELSE 0)]
              /\ \E q \in Orderings(attempted) :
                    returned' = [fn |-> "upload_run", missing |-> inputs.local \ stage,
                                 attempted |-> q, failed |-> failed]
    /\ upload_status' = "completed"
    /\ UNCHANGED <<stage_cache, pdfVars, inputs, bronze, storeVars, now, CURRENT_USER, sessVars,
                   histVars, boundVars, reconciliation_data, cacheVars>>

NextUpload ==
    \/ SidebarUpload
    \/ bulk_upload_dataset
    \/ UploadPage("none")
    \/ UploadPage("start")
    \/ UploadPage("refresh")
    \/ UploadPage("clear")
    \/ UploadRun

SpecUpload == InitGiven([local : SUBSET DatasetPdfs]) /\ [][NextUpload]_vars

\* The files of a sequence of attempts.
Attempted(q) == {q[i] : i \in DOMAIN q}

\* C28: bulk_upload_dataset attempts exactly the local PDFs whose names are
\* not listed in the stage, each once, and returns True iff no attempt
\* failed; run again after a run in which every upload succeeded, it uploads
\* nothing and returns True.
C28_ScriptIsResumable ==
    returned.fn = "bulk_upload_dataset" =>
        /\ Attempted(returned.attempted) = returned.missing
        /\ Len(returned.attempted) = Cardinality(returned.missing)
        /\ returned.value <=> (returned.failed = {})
        /\ returned.after_clean_run => (returned.attempted = <<>> /\ returned.value)

\* C29: a run of the page that started with upload_status = 'uploading' ends
\* with 'completed', has attempted each local PDF missing from the stage
\* once, and leaves upload_results describing it, with success + failed equal
\* to the number of files missing at its start.
C29_UploadRunCompletesWithItsResults ==
    returned.fn = "upload_run" =>
        /\ upload_status = "completed"
        /\ Attempted(returned.attempted) = returned.missing
        /\ Len(returned.attempted) = Cardinality(returned.missing)
        /\ ~upload_results.isNone
        /\ upload_results.success + upload_results.failed = Cardinality(returned.missing)

\* C30: whenever the page is drawn and a local PDF is not in the stage, the
\* 'Start Bulk Upload' button is enabled and 'All files already uploaded!'
\* is not shown (both follow files_to_upload = 0).
C30_MissingFileEnablesStart ==
    (returned.fn = "upload_page" /\ stage_cache.present /\ inputs.local \ stage # {}) =>
        files_to_upload(stage_cache.stage_count) # 0

====
